---- MODULE Spec2Model ----
(***************************************************************************)
(* The webclaw command-line tool (packages/webclaw CLI script): argument   *)
(* parsing, command dispatch and the bootstrap flow of initProject, run    *)
(* against a file system that persists from one invocation to the next.    *)
(*                                                                         *)
(* Strings are sequences of atoms.  The characters the code inspects       *)
(* ("-", "=", " ", ".", "/", "+", the digits) are always atoms of their    *)
(* own; a run of other characters is one atom.  Two strings are equal      *)
(* exactly when their atom sequences are.                                  *)
(***************************************************************************)
EXTENDS Integers, Sequences, FiniteSets, TLC

\* ------------------------------------------------------------ strings

Digits == <<"0", "1", "2", "3", "4", "5", "6", "7", "8", "9">>

IsDigit(c) == \E i \in 1..10 : Digits[i] = c

DigitVal(c) == (CHOOSE i \in 1..10 : Digits[i] = c) - 1

\* String.prototype.startsWith
startsWith(s, prefix) ==
    /\ Len(s) >= Len(prefix)
    /\ SubSeq(s, 1, Len(prefix)) = prefix

\* String.prototype.indexOf for a one-character needle, 1-based; 0 when absent
indexOf(s, c) ==
    IF \E i \in 1..Len(s) : s[i] = c
    THEN CHOOSE i \in 1..Len(s) : s[i] = c /\ \A j \in 1..(i - 1) : s[j] # c
    ELSE 0

\* String.prototype.includes
includes(s, needle) ==
    \E i \in 1..(Len(s) - Len(needle) + 1) :
        SubSeq(s, i, i + Len(needle) - 1) = needle

RECURSIVE trimStart(_)
trimStart(s) ==
    IF s # <<>> /\ Head(s) = " " THEN trimStart(Tail(s)) ELSE s

RECURSIVE trimEnd(_)
trimEnd(s) ==
    IF s # <<>> /\ s[Len(s)] = " " THEN trimEnd(SubSeq(s, 1, Len(s) - 1)) ELSE s

\* String.prototype.trim
trim(s) == trimEnd(trimStart(s))

\* the decimal rendering of a non-negative integer, as `${n}` gives it
RECURSIVE numberToString(_)
numberToString(n) ==
    IF n < 10 THEN <<Digits[n + 1]>>
    ELSE numberToString(n \div 10) \o <<Digits[(n % 10) + 1]>>

\* the value of a run of digits
RECURSIVE digitsValue(_)
digitsValue(ds) ==
    IF ds = <<>> THEN 0
    ELSE 10 * digitsValue(SubSeq(ds, 1, Len(ds) - 1)) + DigitVal(ds[Len(ds)])

AllDigits(s) == \A i \in 1..Len(s) : IsDigit(s[i])

NaN == [nan |-> TRUE, int |-> FALSE, val |-> 0]

\* Number(string): white space is trimmed, the empty string is 0, then an
\* optional sign and a decimal literal (digits, with an optional fraction);
\* anything else is NaN.  int says whether the value is an integer.
unsignedNumber(s) ==
    LET dot == indexOf(s, ".")
        ip  == IF dot = 0 THEN s ELSE SubSeq(s, 1, dot - 1)
        fp  == IF dot = 0 THEN <<>> ELSE SubSeq(s, dot + 1, Len(s))
    IN  IF /\ AllDigits(ip) /\ AllDigits(fp)
           /\ (ip # <<>> \/ fp # <<>>)
        THEN [nan |-> FALSE,
              int |-> \A i \in 1..Len(fp) : fp[i] = "0",
              val |-> digitsValue(ip)]
        ELSE NaN

stringToNumber(str) ==
    LET s == trim(str)
    IN  IF s = <<>> THEN [nan |-> FALSE, int |-> TRUE, val |-> 0]
        ELSE IF Head(s) = "-"
             THEN LET u == unsignedNumber(Tail(s))
                  IN  [u EXCEPT !.val = 0 - u.val]
        ELSE IF Head(s) = "+" THEN unsignedNumber(Tail(s))
        ELSE unsignedNumber(s)

\* a JavaScript value that is a number or a string
Num(n) == [t |-> "number", n |-> n, s |-> <<>>]
Str(s) == [t |-> "string", n |-> 0, s |-> s]

\* Number(value)
Number(value) ==
    IF value.t = "number"
    THEN [nan |-> FALSE, int |-> TRUE, val |-> value.n]
    ELSE stringToNumber(value.s)

MinPort == 1
MaxPort == 65535

parsePortMutant(value, fallback) ==
    LET parsed == Number(value)
    IN  IF parsed.nan THEN fallback ELSE parsed.val

parsePortExclusiveMutant(value, fallback) ==
    LET parsed == Number(value)
    IN  IF parsed.nan \/ ~parsed.int \/ parsed.val <= MinPort \/ parsed.val >= MaxPort
        THEN fallback
        ELSE parsed.val

\* parsePort(value, fallback)
parsePort(value, fallback) ==
    LET parsed == Number(value)
    IN  IF parsed.nan \/ ~parsed.int \/ parsed.val < MinPort \/ parsed.val > MaxPort
        THEN fallback
        ELSE parsed.val

\* ------------------------------------------------------------ tokens

HelpShort == <<"-", "h">>
HelpLong == <<"-", "-", "help">>
OptProjectName == <<"-", "-", "project", "-", "name">>
OptGatewayUrl == <<"-", "-", "gateway", "-", "url">>
OptGatewayToken == <<"-", "-", "gateway", "-", "token">>
OptGatewayPassword == <<"-", "-", "gateway", "-", "password">>
OptPort == <<"-", "-", "port">>
OptYes == <<"-", "-", "yes">>
OptNoStart == <<"-", "-", "no", "-", "start">>
OptForce == <<"-", "-", "force">>
OptSkipEnv == <<"-", "-", "skip", "-", "env">>

optionsWithValuesMutant ==
    {OptProjectName, OptGatewayUrl, OptGatewayToken, OptGatewayPassword}

\* the options of parseCliArgs that take the next token as their value
optionsWithValues ==
    {OptProjectName, OptGatewayUrl, OptGatewayToken, OptGatewayPassword, OptPort}

mapSetMutant(m, k, v) == m @@ (k :> v)

\* Map.prototype.set: the last value set for a key is the one kept
mapSet(m, k, v) == (k :> v) @@ m

\* Map.prototype.get(k) || dflt, for string values (the empty string is falsy)
getOr(m, k, dflt) ==
    IF k \in DOMAIN m /\ m[k] # <<>> THEN m[k] ELSE dflt

EmptyParsed == [flags |-> {}, values |-> <<>>, positionals |-> <<>>]

RECURSIVE parseFrom(_, _, _)
parseFrom(args, index, acc) ==
    IF index > Len(args) THEN acc
    ELSE
      LET arg == args[index]
          equalIndex == indexOf(arg, "=")
          hasNext == index + 1 <= Len(args)
      IN
      IF ~startsWith(arg, <<"-">>)
      THEN parseFrom(args, index + 1,
                     [acc EXCEPT !.positionals = Append(@, arg)])
      ELSE IF arg = HelpShort \/ arg = HelpLong
      THEN parseFrom(args, index + 1, [acc EXCEPT !.flags = @ \cup {arg}])
      ELSE IF ~startsWith(arg, <<"-", "-">>)
      THEN parseFrom(args, index + 1, [acc EXCEPT !.flags = @ \cup {arg}])
      ELSE IF equalIndex # 0
      THEN parseFrom(args, index + 1,
                     [acc EXCEPT !.values =
                         mapSet(@, SubSeq(arg, 1, equalIndex - 1),
                                   SubSeq(arg, equalIndex + 1, Len(arg)))])
      ELSE IF /\ arg \in optionsWithValues
              /\ hasNext
              /\ args[index + 1] # <<>>
              /\ ~startsWith(args[index + 1], <<"-">>)
      THEN parseFrom(args, index + 2,
                     [acc EXCEPT !.values = mapSet(@, arg, args[index + 1])])
      ELSE parseFrom(args, index + 1, [acc EXCEPT !.flags = @ \cup {arg}])

parseCliArgs(args) == parseFrom(args, 1, EmptyParsed)

\* ------------------------------------------------------------ paths

RECURSIVE joinAtoms(_)
joinAtoms(s) == IF s = <<>> THEN "" ELSE Head(s) \o joinAtoms(Tail(s))

\* String.prototype.split("/") of a path string, each part joined to one name
RECURSIVE splitPath(_)
splitPath(s) ==
    LET slash == indexOf(s, "/")
    IN  IF slash = 0 THEN <<joinAtoms(s)>>
        ELSE <<joinAtoms(SubSeq(s, 1, slash - 1))>>
             \o splitPath(SubSeq(s, slash + 1, Len(s)))

RECURSIVE normalizeOnto(_, _)
normalizeOnto(base, segs) ==
    IF segs = <<>> THEN base
    ELSE LET seg == Head(segs)
         IN  IF seg = "" \/ seg = "."
             THEN normalizeOnto(base, Tail(segs))
             ELSE IF seg = ".."
             THEN normalizeOnto(IF base = <<>> THEN base
                                ELSE SubSeq(base, 1, Len(base) - 1), Tail(segs))
             ELSE normalizeOnto(Append(base, seg), Tail(segs))

\* path.resolve(from, to): an absolute path is a sequence of names
pathResolve(from, to) ==
    IF startsWith(to, <<"/">>)
    THEN normalizeOnto(<<>>, splitPath(to))
    ELSE normalizeOnto(from, splitPath(to))

\* path.join(dir, name, ...)
pathJoin(dir, names) == dir \o names

isPrefix(d, p) == Len(d) <= Len(p) /\ SubSeq(p, 1, Len(d)) = d

\* process.cwd(), os.tmpdir() and LOCAL_TEMPLATE_ROOT
Cwd == <<"cwd">>
TmpDir == <<"tmp">>
LOCAL_TEMPLATE_ROOT == <<"tool">>

\* ------------------------------------------------------------ file system
\* A file system maps each existing path to its node.

DirNode == [kind |-> "dir", text |-> <<>>, hasDev |-> FALSE]
FileNode(text) == [kind |-> "file", text |-> text, hasDev |-> FALSE]
\* a package.json: hasDev says whether scripts.dev is a string, text is it
ManifestNode(dev) == [kind |-> "json", text |-> dev, hasDev |-> TRUE]
ManifestNoDev == [kind |-> "json", text |-> <<>>, hasDev |-> FALSE]

existsSync(f, p) == p \in DOMAIN f

\* fs.readdirSync(dir): the names of the entries of dir
readdirSync(f, dir) ==
    {p[Len(dir) + 1] : p \in {q \in DOMAIN f : isPrefix(dir, q) /\ Len(q) > Len(dir)}}

Ancestors(p) == {SubSeq(p, 1, n) : n \in 1..Len(p)}

\* fs.mkdirSync(dir, {recursive: true})
mkdirSync(f, dir) ==
    [q \in DOMAIN f \cup Ancestors(dir) |-> IF q \in DOMAIN f THEN f[q] ELSE DirNode]

ensureDir(f, dir) == IF ~existsSync(f, dir) THEN mkdirSync(f, dir) ELSE f

\* fs.rmSync(p, {recursive: true, force: true})
rmSync(f, p) == [q \in {r \in DOMAIN f : ~isPrefix(p, r)} |-> f[q]]

\* fs.writeFileSync(p, node)
writeFileSync(f, p, node) == (p :> node) @@ f

\* the entry names copyDir skips, at every level
CopyExcluded ==
    {"node_modules", ".git", ".env.local", ".openclaw", ".webclaw", ".tanstack",
     ".DS_Store"}

\* the paths below sourceDir that copyDir visits: no name on the way is excluded
Copied(f, sourceDir) ==
    {q \in DOMAIN f :
        /\ isPrefix(sourceDir, q) /\ Len(q) > Len(sourceDir)
        /\ \A i \in (Len(sourceDir) + 1)..Len(q) : q[i] \notin CopyExcluded}

rebase(q, sourceDir, targetDir) ==
    targetDir \o SubSeq(q, Len(sourceDir) + 1, Len(q))

\* copyDir(sourceDir, targetDir) restricted to the visited paths in `which`:
\* directories are ensured, files are copied over what is there
copyPaths(f, sourceDir, targetDir, which) ==
    LET g == ensureDir(f, targetDir)
        new == {rebase(q, sourceDir, targetDir) : q \in which}
        src(t) == CHOOSE q \in which : rebase(q, sourceDir, targetDir) = t
    IN  [t \in DOMAIN g \cup new |->
            IF t \in new /\ ~(f[src(t)].kind = "dir" /\ t \in DOMAIN g)
            THEN f[src(t)]
            ELSE g[t]]

copyDir(f, sourceDir, targetDir) ==
    copyPaths(f, sourceDir, targetDir, Copied(f, sourceDir))

\* copyDir stopped by an error of the file system: nothing copied yet, or
\* only the entries of the top level
copyDirPartial(f, sourceDir, targetDir) ==
    {ensureDir(f, targetDir),
     copyPaths(f, sourceDir, targetDir,
               {q \in Copied(f, sourceDir) :
                   Len(q) = Len(sourceDir) + 1 /\ f[q].kind # "dir"})}

isDirEmptyMutant(f, targetDir) ==
    IF ~existsSync(f, targetDir) THEN TRUE
    ELSE {file \in readdirSync(f, targetDir) : file # ".git"} = {}

\* isDirEmpty(targetDir)
isDirEmpty(f, targetDir) ==
    IF ~existsSync(f, targetDir) THEN TRUE
    ELSE {file \in readdirSync(f, targetDir) :
             file # ".DS_Store" /\ file # ".git"} = {}

\* ------------------------------------------------------------ project layout

AppsWebclaw == <<"apps", "webclaw">>

\* detectPackageManager(cwd)
detectPackageManager(f, cwd) ==
    IF existsSync(f, pathJoin(cwd, <<"pnpm-lock.yaml">>)) THEN "pnpm"
    ELSE IF existsSync(f, pathJoin(cwd, <<"yarn.lock">>)) THEN "yarn"
    ELSE "npm"

detectProjectRootMutant(f, cwd) ==
    LET appDir == pathJoin(cwd, AppsWebclaw)
    IN  IF existsSync(f, pathJoin(appDir, <<"package.json">>))
        THEN [mode |-> "monorepo", appDir |-> appDir]
        ELSE [mode |-> "single", appDir |-> cwd]

\* detectProjectRoot(cwd): mode "none" stands for null
detectProjectRoot(f, cwd) ==
    LET appDir == pathJoin(cwd, AppsWebclaw)
    IN  IF existsSync(f, pathJoin(appDir, <<"package.json">>))
        THEN [mode |-> "monorepo", appDir |-> appDir]
        ELSE IF existsSync(f, pathJoin(cwd, <<"package.json">>))
        THEN [mode |-> "single", appDir |-> cwd]
        ELSE [mode |-> "none", appDir |-> <<>>]

hasLocalTemplateMutant(f) ==
    /\ existsSync(f, pathJoin(Cwd, <<"package.json">>))
    /\ existsSync(f, pathJoin(Cwd, AppsWebclaw \o <<"package.json">>))

\* getLocalTemplateSource() # null
hasLocalTemplate(f) ==
    /\ existsSync(f, pathJoin(LOCAL_TEMPLATE_ROOT, <<"package.json">>))
    /\ existsSync(f, pathJoin(LOCAL_TEMPLATE_ROOT, AppsWebclaw \o <<"package.json">>))

\* resolveEnvFile(targetDir)
resolveEnvFile(f, targetDir) ==
    IF existsSync(f, pathJoin(targetDir, AppsWebclaw))
    THEN pathJoin(targetDir, AppsWebclaw \o <<".env.local">>)
    ELSE pathJoin(targetDir, <<".env.local">>)

\* ------------------------------------------------------------ the template
\* The repository at REPO_URL and the local checkout hold the monorepo: a root
\* manifest, a lock file of pnpm, and the application manifest with its dev
\* script.

RootDevScript == <<"pnpm", " ", "-", "C", " ", "apps", "/", "webclaw", " ", "dev">>
DevWithPort == <<"vite", " ", "dev", " ", "-", "-", "port", " ", "3", "0", "0", "0">>
DevWithoutPort == <<"vite", " ", "dev">>

\* the dev scripts the application manifest of the template may declare
TemplateDevScripts == {DevWithPort, DevWithoutPort}

TemplateTree(dev) ==
    (<<"package.json">> :> ManifestNode(RootDevScript))
    @@ (<<"pnpm-lock.yaml">> :> FileNode(<<>>))
    @@ (<<"apps">> :> DirNode)
    @@ (AppsWebclaw :> DirNode)
    @@ (AppsWebclaw \o <<"package.json">> :> ManifestNode(dev))

\* the tree `tree` (relative paths) placed below dir
plant(f, dir, tree) ==
    LET g == mkdirSync(f, dir)
    IN  [q \in DOMAIN g \cup {dir \o r : r \in DOMAIN tree} |->
            IF isPrefix(dir, q) /\ SubSeq(q, Len(dir) + 1, Len(q)) \in DOMAIN tree
            THEN tree[SubSeq(q, Len(dir) + 1, Len(q))]
            ELSE g[q]]

\* what a successful `git clone --depth 1 REPO_URL dir` leaves: the work tree
\* and the .git directory
gitCloned(f, dir, dev) ==
    plant(f, dir, (<<".git">> :> DirNode) @@ TemplateTree(dev))

\* git refuses to clone into an existing directory that has entries
cloneRefused(f, dir) == existsSync(f, dir) /\ readdirSync(f, dir) # {}

\* ------------------------------------------------------------ dev port

\* the first index from i on at which s has no atom of `set` (Len(s)+1 if none)
RECURSIVE skipWhile(_, _, _)
skipWhile(s, i, set) ==
    IF i <= Len(s) /\ s[i] \in set THEN skipWhile(s, i + 1, set) ELSE i

DigitSet == {Digits[i] : i \in 1..10}
PortFlag == <<"-", "-", "port">>

\* whether /--port\s+\d+/ matches at index i, and where the match ends
portMatchEnd(s, i) ==
    LET afterFlag == i + Len(PortFlag)
        afterSpace == skipWhile(s, afterFlag, {" "})
        afterDigits == skipWhile(s, afterSpace, DigitSet)
    IN  IF /\ afterFlag - 1 <= Len(s)
           /\ SubSeq(s, i, afterFlag - 1) = PortFlag
           /\ afterSpace > afterFlag
           /\ afterDigits > afterSpace
        THEN afterDigits - 1
        ELSE 0

\* dev.replace(/--port\s+\d+/, `--port ${port}`): the first match only
replacePort(s, port) ==
    IF \E i \in 1..Len(s) : portMatchEnd(s, i) # 0
    THEN LET i == CHOOSE k \in 1..Len(s) :
                      /\ portMatchEnd(s, k) # 0
                      /\ \A j \in 1..(k - 1) : portMatchEnd(s, j) = 0
         IN  SubSeq(s, 1, i - 1) \o PortFlag \o <<" ">> \o numberToString(port)
             \o SubSeq(s, portMatchEnd(s, i) + 1, Len(s))
    ELSE s

\* setDevPort(targetDir, port)
setDevPort(f, targetDir, port) ==
    LET appPackagePath ==
            IF existsSync(f, pathJoin(targetDir, AppsWebclaw))
            THEN pathJoin(targetDir, AppsWebclaw \o <<"package.json">>)
            ELSE pathJoin(targetDir, <<"package.json">>)
    IN  IF ~existsSync(f, appPackagePath) THEN f
        ELSE IF ~f[appPackagePath].hasDev THEN f
        ELSE LET dev == f[appPackagePath].text
                 patched == IF includes(dev, PortFlag)
                            THEN replacePort(dev, port)
                            ELSE dev \o <<" ">> \o PortFlag \o <<" ">>
                                 \o numberToString(port)
             IN  writeFileSync(f, appPackagePath, ManifestNode(patched))

\* ------------------------------------------------------------ env file

KeyUrl == "CLAWDBOT_GATEWAY_URL"
KeyToken == "CLAWDBOT_GATEWAY_TOKEN"
KeyPassword == "CLAWDBOT_GATEWAY_PASSWORD"

envLine(key, value) == <<key, "=">> \o value

\* lines.join('\n') followed by '\n'
RECURSIVE joinLines(_)
joinLines(lines) ==
    IF lines = <<>> THEN <<>>
    ELSE IF Len(lines) = 1 THEN Head(lines) \o <<"\n">>
    ELSE Head(lines) \o <<"\n">> \o joinLines(Tail(lines))

envLinesMutant(envValues) ==
    <<envLine(KeyUrl, envValues.gatewayUrl),
      envLine(KeyToken, envValues.gatewayToken),
      envLine(KeyPassword, envValues.gatewayPassword)>>

\* the lines writeEnvFile writes
envLines(envValues) ==
    <<envLine(KeyUrl, envValues.gatewayUrl),
      envLine(KeyToken, envValues.gatewayToken)>>
    \o (IF Len(envValues.gatewayPassword) > 0
        THEN <<envLine(KeyPassword, envValues.gatewayPassword)>>
        ELSE <<>>)

\* writeEnvFile(targetDir, envValues): the file system it leaves
writeEnvFile(f, targetDir, envValues) ==
    LET envFile == resolveEnvFile(f, targetDir)
        g == ensureDir(f, SubSeq(envFile, 1, Len(envFile) - 1))
    IN  writeFileSync(g, envFile, FileNode(joinLines(envLines(envValues))))

\* ------------------------------------------------------------ configuration

DefaultProjectName == <<"webclaw">>
DefaultGatewayUrl ==
    <<"ws:", "/", "/", "1", "2", "7", ".", "0", ".", "0", ".", "1", ":",
      "1", "8", "7", "8", "9">>
DefaultPort == 3000

orElseMutant(a, b) == a

\* a || b for strings
orElse(a, b) == IF a # <<>> THEN a ELSE b

initialProjectName(parsedArgs) ==
    getOr(parsedArgs.values, OptProjectName, DefaultProjectName)
initialGatewayUrl(parsedArgs) ==
    getOr(parsedArgs.values, OptGatewayUrl, DefaultGatewayUrl)
initialGatewayToken(parsedArgs) == getOr(parsedArgs.values, OptGatewayToken, <<>>)
initialGatewayPassword(parsedArgs) ==
    getOr(parsedArgs.values, OptGatewayPassword, <<>>)
initialPort(parsedArgs) ==
    LET given == getOr(parsedArgs.values, OptPort, <<>>)
    IN  parsePort(IF given # <<>> THEN Str(given) ELSE Num(DefaultPort), DefaultPort)

\* askBootstrapConfig: nonInteractive
nonInteractive(parsedArgs, inTTY, outTTY) ==
    OptYes \in parsedArgs.flags \/ ~inTTY \/ ~outTTY

autoStartOf(parsedArgs) == OptNoStart \notin parsedArgs.flags

\* askBootstrapConfig: the configuration returned without prompting
nonInteractiveConfig(parsedArgs) ==
    [projectName |-> initialProjectName(parsedArgs),
     envValues |-> [gatewayUrl |-> initialGatewayUrl(parsedArgs),
                    gatewayToken |-> initialGatewayToken(parsedArgs),
                    gatewayPassword |-> initialGatewayPassword(parsedArgs)],
     port |-> initialPort(parsedArgs),
     autoStart |-> autoStartOf(parsedArgs)]

\* askBootstrapConfig: the configuration returned after the five answers
\* (already trimmed by askQuestion)
interactiveConfig(parsedArgs, a) ==
    [projectName |-> orElse(a[1], initialProjectName(parsedArgs)),
     envValues |-> [gatewayUrl |-> orElse(a[2], initialGatewayUrl(parsedArgs)),
                    gatewayToken |-> orElse(a[3], initialGatewayToken(parsedArgs)),
                    gatewayPassword |->
                        orElse(a[4], initialGatewayPassword(parsedArgs))],
     port |-> parsePort(IF a[5] # <<>> THEN Str(a[5])
                        ELSE Num(initialPort(parsedArgs)),
                        initialPort(parsedArgs)),
     autoStart |-> autoStartOf(parsedArgs)]

\* the questions of askBootstrapConfig, in the order of the code
BootstrapQuestions ==
    <<"project-name", "gateway-url", "gateway-token", "gateway-password", "port">>

\* ------------------------------------------------------------ subprocesses

\* the largest exit status a subprocess of the model ends with
MaxStatus == 2

\* what spawnSync returns: an error (the command could not be spawned), or a
\* status; the status is absent (null) when a signal ended the subprocess
SpawnResults ==
    {[error |-> FALSE, status |-> <<n>>] : n \in 0..MaxStatus}
    \cup {[error |-> TRUE, status |-> <<>>], [error |-> FALSE, status |-> <<>>]}

Succeeded(result) == ~result.error /\ result.status = <<0>>

runCommandIgnoresErrorMutant(result) ==
    IF result.status # <<>> /\ result.status[1] # 0 THEN "exit" ELSE "return"

runCommandMutant(result) ==
    IF result.error THEN "throw" ELSE "return"

\* runCommand(command, args, cwd): how control leaves it
runCommand(result) ==
    IF result.error THEN "throw"
    ELSE IF result.status # <<>> /\ result.status[1] # 0 THEN "exit"
    ELSE "return"

\* ------------------------------------------------------------ state

VARIABLES
    fs,           \* the file system
    argv,         \* process.argv.slice(2)
    parsedArgs,   \* main's parsedArgs, once main has parsed argv
    stdinIsTTY,   \* process.stdin.isTTY
    stdoutIsTTY,  \* process.stdout.isTTY
    stdin,        \* the lines typed on standard input, in order
    consumed,     \* how many of them the run has read
    pc,           \* where the run is
    exitCode,     \* <<>> while the run goes on, <<code>> once the process ended
    log,          \* what the run wrote, asked and spawned, in order
    cfg,          \* <<>> or <<bootstrapConfig>>
    answers,      \* the answers askBootstrapConfig has so far
    targetDir,    \* initProject's targetDir (<<>> before it is resolved)
    run,          \* the number of the invocation
    fsStart,      \* the file system when the run began
    prev          \* <<>>, or <<outcome>> of the previous run if a guard ended it

vars == <<fs, argv, parsedArgs, stdinIsTTY, stdoutIsTTY, stdin, consumed, pc, exitCode, log,
          cfg, answers, targetDir, run, fsStart, prev>>

invocation == <<argv, stdinIsTTY, stdoutIsTTY, stdin>>

\* log events
Ev(t, a, d, r) == [t |-> t, a |-> a, d |-> d, r |-> r]
Out(a) == Ev("stdout", a, <<>>, <<>>)
Err(a, d) == Ev("stderr", a, d, <<>>)
Prompt(a) == Ev("prompt", a, <<>>, <<>>)
Begin(stage) == Ev("begin", stage, <<>>, <<>>)
End(stage) == Ev("end", stage, <<>>, <<>>)
Spawn(a, d, result) == Ev("spawn", a, d, <<result>>)
Fs(a, d) == Ev("fs", a, d, <<>>)

parsed == parsedArgs
options == parsed.flags
command == IF Len(parsed.positionals) >= 1 THEN parsed.positionals[1] ELSE <<>>

PassThroughMutant == {<<"dev">>, <<"build">>, <<"preview">>, <<"test">>}

\* the commands main hands to runProjectScript
PassThrough == {<<"dev">>, <<"build">>, <<"preview">>, <<"test">>, <<"lint">>}

Exits(code) == pc' = "exited" /\ exitCode' = <<code>>

\* main().catch: the message goes to the error stream, process.exit(1)
Caught(events) == log' = log \o events \o <<Err("error", <<>>)>> /\ Exits(1)

\* how an action leaves after runCommand(result): process.exit(status), the
\* error thrown to main().catch, or on to `next`
AfterRun(result, events, next) ==
    IF runCommand(result) = "throw" THEN Caught(events)
    ELSE IF runCommand(result) = "exit"
    THEN log' = log \o events /\ Exits(result.status[1])
    ELSE /\ log' = log \o events
         /\ IF next = "exited" THEN Exits(0)
            ELSE pc' = next /\ UNCHANGED exitCode

\* ------------------------------------------------------------ main

\* main(): parse, then dispatch on the help flags and the first positional
Main ==
    /\ pc = "main"
    /\ UNCHANGED <<fs, argv, stdinIsTTY, stdoutIsTTY, stdin, consumed, cfg,
                   answers, targetDir, run, fsStart, prev>>
    /\ parsedArgs' = parseCliArgs(argv)
    /\ LET opts == parsedArgs'.flags
           cmd == IF Len(parsedArgs'.positionals) >= 1
                  THEN parsedArgs'.positionals[1] ELSE <<>>
       IN  IF HelpShort \in opts \/ HelpLong \in opts
           THEN log' = log \o <<Out("help")>> /\ Exits(0)
           ELSE IF cmd = <<>>
           THEN /\ log' = log \o <<Out("banner")>>
                /\ pc' = "askBootstrapConfig" /\ UNCHANGED exitCode
           ELSE IF cmd = <<"init">>
           THEN pc' = "initProject" /\ UNCHANGED <<log, exitCode>>
           ELSE IF cmd = <<"doctor">>
           THEN pc' = "doctor" /\ UNCHANGED <<log, exitCode>>
           ELSE IF cmd \in PassThrough
           THEN pc' = "runProjectScript" /\ UNCHANGED <<log, exitCode>>
           ELSE /\ log' = log \o <<Err("unknown-command", cmd), Out("help")>>
                /\ Exits(1)

\* askBootstrapConfig up to its first await: the non-interactive result, or
\* the readline interface is opened
AskBootstrapConfig ==
    /\ pc = "askBootstrapConfig"
    /\ UNCHANGED <<fs, argv, parsedArgs, stdinIsTTY, stdoutIsTTY, stdin, consumed, log,
                   exitCode, answers, targetDir, run, fsStart, prev>>
    /\ IF nonInteractive(parsed, stdinIsTTY, stdoutIsTTY)
       THEN cfg' = <<nonInteractiveConfig(parsed)>> /\ pc' = "initProject"
       ELSE cfg' = cfg /\ pc' = "askQuestion"

\* one question of askBootstrapConfig: the prompt is written, the next line of
\* standard input is its answer (trimmed); after the fifth the configuration
\* is returned
AskQuestion ==
    /\ pc = "askQuestion"
    /\ Len(answers) < Len(BootstrapQuestions)
    /\ consumed < Len(stdin)
    /\ LET k == Len(answers) + 1
           all == Append(answers, trim(stdin[consumed + 1]))
       IN  /\ log' = Append(log, Prompt(BootstrapQuestions[k]))
           /\ consumed' = consumed + 1
           /\ answers' = all
           /\ IF k = Len(BootstrapQuestions)
              THEN cfg' = <<interactiveConfig(parsed, all)>> /\ pc' = "initProject"
              ELSE cfg' = cfg /\ pc' = pc
    /\ UNCHANGED <<fs, argv, parsedArgs, stdinIsTTY, stdoutIsTTY, stdin, exitCode, targetDir,
                   run, fsStart, prev>>

\* ------------------------------------------------------------ initProject

nextStepMutant(step) ==
    IF step = "initProject" THEN "populateTemplate"
    ELSE IF step = "populateTemplate" THEN "setDevPort"
    ELSE IF step = "setDevPort" THEN "maybeSetupEnv"
    ELSE IF step = "maybeSetupEnv" THEN "report"
    ELSE IF step = "report" THEN "installDependencies"
    ELSE IF step = "installDependencies" THEN "ensureGitRepository"
    ELSE "startProject"

\* the statements of initProject in the order of the code: what runs when
\* `step` has returned
nextStep(step) ==
    IF step = "initProject" THEN "populateTemplate"
    ELSE IF step = "populateTemplate" THEN "ensureGitRepository"
    ELSE IF step = "ensureGitRepository" THEN "setDevPort"
    ELSE IF step = "setDevPort" THEN "maybeSetupEnv"
    ELSE IF step = "maybeSetupEnv" THEN "report"
    ELSE IF step = "report" THEN "installDependencies"
    ELSE "startProject"

\* rawTarget ?? '.': the project name of the default bootstrap, the second
\* positional of `init`
rawTarget ==
    IF cfg # <<>> THEN cfg[1].projectName
    ELSE IF Len(parsed.positionals) >= 2 THEN parsed.positionals[2]
    ELSE <<".">>

force == OptForce \in options

\* the loop of initProject under --force: every entry but .git is removed
removeEntries(f, dir) ==
    [q \in {r \in DOMAIN f :
               ~(isPrefix(dir, r) /\ Len(r) > Len(dir) /\ r[Len(dir) + 1] # ".git")}
       |-> f[q]]

guardNotEmptyMutant(f, dir, forced) == ~forced /\ ~isDirEmpty(f, dir) /\ dir = Cwd

\* the first guard of initProject
guardNotEmpty(f, dir, forced) == ~forced /\ ~isDirEmpty(f, dir)

guardCurrentDirMutant(f, dir, forced) == forced /\ ~isDirEmpty(f, dir) /\ dir # Cwd

\* the second guard of initProject
guardCurrentDir(f, dir, forced) == forced /\ ~isDirEmpty(f, dir) /\ dir = Cwd

\* initProject from its entry to the end of the --force loop
InitProject ==
    /\ pc = "initProject"
    /\ LET banner == IF cfg = <<>> THEN <<Out("banner")>> ELSE <<>>
           dir == pathResolve(Cwd, rawTarget)
           f1 == ensureDir(fs, dir)
       IN  /\ targetDir' = dir
           /\ IF guardNotEmpty(f1, dir, force)
              THEN /\ fs' = f1
                   /\ log' = log \o banner \o <<Err("target-not-empty", dir)>>
                   /\ Exits(1)
              ELSE IF guardCurrentDir(f1, dir, force)
              THEN /\ fs' = f1
                   /\ log' = log \o banner \o <<Err("refuse-current-dir", <<>>)>>
                   /\ Exits(1)
              ELSE /\ fs' = IF force /\ ~isDirEmpty(f1, dir) /\ dir # Cwd
                            THEN removeEntries(f1, dir)
                            ELSE f1
                   /\ log' = log \o banner
                   /\ pc' = nextStep("initProject")
                   /\ UNCHANGED exitCode
    /\ UNCHANGED <<argv, parsedArgs, stdinIsTTY, stdoutIsTTY, stdin, consumed, cfg, answers,
                   run, fsStart, prev>>

\* fs.mkdtempSync(path.join(os.tmpdir(), 'webclaw-')): a fresh directory
tempRootOf(n) == pathJoin(TmpDir, <<joinAtoms(<<"webclaw-">> \o numberToString(n))>>)

needsTemplate(f, dir) ==
    ~existsSync(f, pathJoin(dir, <<".git">>)) /\ isDirEmpty(f, dir)

\* the condition of initProject on populateTemplate does not hold
PopulateSkipped ==
    /\ ~needsTemplate(fs, targetDir)
    /\ pc' = nextStep("populateTemplate")
    /\ UNCHANGED <<fs, log, exitCode>>

\* populateTemplate with a local template: copyDir, which may fail on the way
PopulateLocal ==
    /\ needsTemplate(fs, targetDir)
    /\ hasLocalTemplate(fs)
    /\ \/ /\ fs' = copyDir(fs, LOCAL_TEMPLATE_ROOT, targetDir)
          /\ log' = log \o <<Begin("populate"), Fs("copy-local", targetDir),
                             End("populate")>>
          /\ pc' = nextStep("populateTemplate")
          /\ UNCHANGED exitCode
       \/ /\ fs' \in copyDirPartial(fs, LOCAL_TEMPLATE_ROOT, targetDir)
          /\ Caught(<<Begin("populate"), Fs("copy-local", targetDir)>>)

\* populateTemplate without a local template, the target not the current
\* directory: cloneRepo(targetDir)
PopulateClone ==
    /\ needsTemplate(fs, targetDir)
    /\ ~hasLocalTemplate(fs)
    /\ targetDir # Cwd
    /\ \E result \in SpawnResults, dev \in TemplateDevScripts :
          /\ cloneRefused(fs, targetDir) => ~Succeeded(result)
          /\ fs' = IF Succeeded(result) THEN gitCloned(fs, targetDir, dev) ELSE fs
          /\ AfterRun(result,
                      <<Begin("populate"), Spawn("git clone", targetDir, result)>>
                      \o (IF runCommand(result) = "return"
                          THEN <<End("populate")>> ELSE <<>>),
                      nextStep("populateTemplate"))

\* populateTemplate without a local template into the current directory: the
\* clone goes to a temporary directory, is copied from there, and the
\* temporary directory is removed
PopulateStaged ==
    /\ needsTemplate(fs, targetDir)
    /\ ~hasLocalTemplate(fs)
    /\ targetDir = Cwd
    /\ LET tempRoot == tempRootOf(run)
           tempCloneDir == pathJoin(tempRoot, <<"repo">>)
           f1 == mkdirSync(fs, tempRoot)
           made == <<Begin("populate"), Fs("mkdtemp", tempRoot)>>
       IN  \E result \in SpawnResults, dev \in TemplateDevScripts :
             LET cloned == made \o <<Spawn("git clone", tempCloneDir, result)>>
                 f2 == IF Succeeded(result) THEN gitCloned(f1, tempCloneDir, dev)
                       ELSE f1
             IN  IF runCommand(result) # "return"
                 THEN fs' = f1 /\ AfterRun(result, cloned, nextStep("populateTemplate"))
                 ELSE IF ~existsSync(f2, tempCloneDir)
                 \* readdirSync of the missing clone throws
                 THEN /\ fs' = ensureDir(f2, targetDir)
                      /\ Caught(cloned \o <<Fs("copy", targetDir)>>)
                 ELSE \/ /\ fs' = rmSync(copyDir(f2, tempCloneDir, targetDir),
                                         tempRoot)
                         /\ log' = log \o cloned
                                   \o <<Fs("copy", targetDir), Fs("rm", tempRoot),
                                        End("populate")>>
                         /\ pc' = nextStep("populateTemplate")
                         /\ UNCHANGED exitCode
                      \/ /\ fs' \in copyDirPartial(f2, tempCloneDir, targetDir)
                         /\ Caught(cloned \o <<Fs("copy", targetDir)>>)

PopulateTemplate ==
    /\ pc = "populateTemplate"
    /\ (PopulateSkipped \/ PopulateLocal \/ PopulateClone \/ PopulateStaged)
    /\ UNCHANGED <<argv, parsedArgs, stdinIsTTY, stdoutIsTTY, stdin, consumed, cfg, answers,
                   targetDir, run, fsStart, prev>>

ensureGitLeavesMutant(result) == IF Succeeded(result) THEN "return" ELSE "throw"

\* how control leaves ensureGitRepository after `git init` gave `result`
ensureGitLeaves(result) == "return"

\* whether 'Initialized git repository' is printed
gitInitReported(result) == result.status = <<0>>

\* ensureGitRepository(targetDir)
EnsureGitRepository ==
    /\ pc = "ensureGitRepository"
    /\ IF existsSync(fs, pathJoin(targetDir, <<".git">>))
       THEN /\ log' = log \o <<Begin("git"), End("git")>>
            /\ pc' = nextStep("ensureGitRepository")
            /\ UNCHANGED <<fs, exitCode>>
       ELSE \E result \in SpawnResults :
              LET events == <<Begin("git"), Spawn("git init", targetDir, result)>>
                            \o (IF gitInitReported(result)
                                THEN <<Out("git-initialized")>> ELSE <<>>)
              IN  /\ fs' = IF Succeeded(result)
                           THEN mkdirSync(fs, pathJoin(targetDir, <<".git">>))
                           ELSE fs
                  /\ IF ensureGitLeaves(result) = "throw"
                     THEN Caught(events)
                     ELSE /\ log' = log \o events \o <<End("git")>>
                          /\ pc' = nextStep("ensureGitRepository")
                          /\ UNCHANGED exitCode
    /\ UNCHANGED <<argv, parsedArgs, stdinIsTTY, stdoutIsTTY, stdin, consumed, cfg, answers,
                   targetDir, run, fsStart, prev>>

\* if (bootstrapConfig) setDevPort(targetDir, bootstrapConfig.port)
SetDevPort ==
    /\ pc = "setDevPort"
    /\ IF cfg # <<>>
       THEN /\ fs' = setDevPort(fs, targetDir, cfg[1].port)
            /\ log' = log \o <<Begin("port"), End("port")>>
       ELSE UNCHANGED <<fs, log>>
    /\ pc' = nextStep("setDevPort")
    /\ UNCHANGED <<argv, parsedArgs, stdinIsTTY, stdoutIsTTY, stdin, consumed, exitCode, cfg,
                   answers, targetDir, run, fsStart, prev>>

\* ------------------------------------------------------------ maybeSetupEnv

\* String.prototype.toLowerCase, on the answers of the model
lowerAtom(a) ==
    IF a = "Y" THEN "y" ELSE IF a = "YES" \/ a = "Yes" THEN "yes"
    ELSE IF a = "N" THEN "n" ELSE a

toLowerCase(s) == [i \in 1..Len(s) |-> lowerAtom(s[i])]

saysYes(answer) == toLowerCase(answer) \in {<<"y">>, <<"yes">>}

\* the prompting part of maybeSetupEnv, given the lines still to be read: the
\* file system it leaves, what it writes and asks, and the lines it read
envDialogue(f, dir, lines) ==
    LET envFile == resolveEnvFile(f, dir)
        createAnswer == trim(lines[1])
        exists == existsSync(f, envFile)
        overwriteAnswer == trim(lines[2])
        rest == IF exists THEN 2 ELSE 1
        values == [gatewayUrl |-> trim(lines[rest + 1]),
                   gatewayToken |-> trim(lines[rest + 2]),
                   gatewayPassword |-> <<>>]
        asked == <<Prompt("create-env")>>
                 \o (IF exists THEN <<Prompt("overwrite-env")>> ELSE <<>>)
    IN  IF ~(createAnswer = <<>> \/ saysYes(createAnswer))
        THEN [fs |-> f, used |-> 1,
              events |-> <<Prompt("create-env"), Out("skipping-env")>>]
        ELSE IF exists /\ ~saysYes(overwriteAnswer)
        THEN [fs |-> f, used |-> 2, events |-> asked \o <<Out("keeping-env")>>]
        ELSE [fs |-> writeEnvFile(f, dir, values), used |-> rest + 2,
              events |-> asked \o <<Prompt("env-gateway-url"),
                                    Prompt("env-gateway-token"),
                                    Fs("write-env", envFile), Out("wrote-env")>>]

\* if (options.has('--skip-env')) return
envSkipped(opts) == OptSkipEnv \in opts

\* whether maybeSetupEnv, given no values, goes on to its prompts
envPrompts(opts, inTTY, outTTY) == inTTY /\ outTTY

\* maybeSetupEnv(targetDir, options, bootstrapConfig?.envValues)
MaybeSetupEnv ==
    /\ pc = "maybeSetupEnv"
    /\ IF envSkipped(options)
       THEN /\ log' = log \o <<Begin("env"), End("env")>>
            /\ UNCHANGED <<fs, consumed>>
       ELSE IF cfg # <<>>
       THEN /\ fs' = writeEnvFile(fs, targetDir, cfg[1].envValues)
            /\ log' = log \o <<Begin("env"),
                               Fs("write-env", resolveEnvFile(fs, targetDir)),
                               Out("wrote-env"), End("env")>>
            /\ UNCHANGED consumed
       ELSE IF ~envPrompts(options, stdinIsTTY, stdoutIsTTY)
       THEN /\ log' = log \o <<Begin("env"), End("env")>>
            /\ UNCHANGED <<fs, consumed>>
       ELSE LET d == envDialogue(fs, targetDir,
                                 SubSeq(stdin, consumed + 1, Len(stdin)))
            IN  /\ consumed + 4 <= Len(stdin)
                /\ fs' = d.fs
                /\ consumed' = consumed + d.used
                /\ log' = log \o <<Begin("env")>> \o d.events \o <<End("env")>>
    /\ pc' = nextStep("maybeSetupEnv")
    /\ UNCHANGED <<argv, parsedArgs, stdinIsTTY, stdoutIsTTY, stdin, exitCode, cfg, answers,
                   targetDir, run, fsStart, prev>>

\* the report of initProject and its choice between auto-start and next steps
Report ==
    /\ pc = "report"
    /\ IF cfg # <<>> /\ cfg[1].autoStart
       THEN /\ log' = log \o <<Out("created"), Out("installing")>>
            /\ pc' = nextStep("report")
            /\ UNCHANGED exitCode
       ELSE /\ log' = log \o <<Out("created"), Out("next-steps")>>
            /\ Exits(0)
    /\ UNCHANGED <<fs, argv, parsedArgs, stdinIsTTY, stdoutIsTTY, stdin, consumed, cfg,
                   answers, targetDir, run, fsStart, prev>>

\* installDependencies(targetDir), then the 'Starting' line
InstallDependencies ==
    /\ pc = "installDependencies"
    /\ \E result \in SpawnResults :
          LET pm == detectPackageManager(fs, targetDir)
              ran == <<Begin("install"), Spawn(pm \o " install", targetDir, result)>>
          IN  /\ fs' = IF Succeeded(result)
                       THEN mkdirSync(fs, pathJoin(targetDir, <<"node_modules">>))
                       ELSE fs
              /\ AfterRun(result,
                          ran \o (IF runCommand(result) = "return"
                                  THEN <<End("install"), Out("starting")>>
                                  ELSE <<>>),
                          nextStep("installDependencies"))
    /\ UNCHANGED <<argv, parsedArgs, stdinIsTTY, stdoutIsTTY, stdin, consumed, cfg, answers,
                   targetDir, run, fsStart, prev>>

\* startProject(targetDir); initProject and main return after it
StartProject ==
    /\ pc = "startProject"
    /\ \E result \in SpawnResults :
          LET pm == detectPackageManager(fs, targetDir)
          IN  AfterRun(result,
                       <<Begin("start"), Spawn(pm \o " run dev", targetDir, result)>>
                       \o (IF runCommand(result) = "return"
                           THEN <<End("start")>> ELSE <<>>),
                       "exited")
    /\ UNCHANGED <<fs, argv, parsedArgs, stdinIsTTY, stdoutIsTTY, stdin, consumed, cfg,
                   answers, targetDir, run, fsStart, prev>>

\* ------------------------------------------------------------ other commands

MinNodeMajor == 20

doctorIssuesMutant(nodeMajor, hasPnpm) ==
    IF nodeMajor < MinNodeMajor THEN <<Err("doctor-issue", <<"node">>)>>
    ELSE IF ~hasPnpm THEN <<Err("doctor-issue", <<"pnpm">>)>>
    ELSE <<>>

\* the issues doctor collects, in the order it prints them
doctorIssues(nodeMajor, hasPnpm) ==
    (IF nodeMajor < MinNodeMajor THEN <<Err("doctor-issue", <<"node">>)>> ELSE <<>>)
    \o (IF ~hasPnpm THEN <<Err("doctor-issue", <<"pnpm">>)>> ELSE <<>>)

\* doctor(): the major version of the runtime and the result of
\* `pnpm --version` are the environment's; the log keeps what was read
Doctor ==
    /\ pc = "doctor"
    /\ \E nodeMajor \in {MinNodeMajor - 1, MinNodeMajor}, pnpm \in SpawnResults :
          LET hasPnpm == pnpm.status = <<0>>
              issues == doctorIssues(nodeMajor, hasPnpm)
              ran == <<Ev("read", "node-major", numberToString(nodeMajor), <<>>),
                       Spawn("pnpm --version", <<>>, pnpm)>>
          IN  IF issues = <<>>
              THEN log' = log \o ran \o <<Out("doctor-ok")>> /\ Exits(0)
              ELSE log' = log \o ran \o issues /\ Exits(1)
    /\ UNCHANGED <<fs, argv, parsedArgs, stdinIsTTY, stdoutIsTTY, stdin, consumed, cfg,
                   answers, targetDir, run, fsStart, prev>>

\* runProjectScript(scriptName)
RunProjectScript ==
    /\ pc = "runProjectScript"
    /\ LET detected == detectProjectRoot(fs, Cwd)
           pm == detectPackageManager(fs, Cwd)
           where == IF detected.mode = "monorepo" /\ pm = "pnpm"
                    THEN Cwd ELSE detected.appDir
       IN  IF detected.mode = "none"
           THEN log' = log \o <<Err("no-project", <<>>)>> /\ Exits(1)
           ELSE \E result \in SpawnResults :
                  AfterRun(result,
                           <<Spawn(pm \o " " \o joinAtoms(command), where, result)>>,
                           "exited")
    /\ UNCHANGED <<fs, argv, parsedArgs, stdinIsTTY, stdoutIsTTY, stdin, consumed, cfg,
                   answers, targetDir, run, fsStart, prev>>

\* ------------------------------------------------------------ invocations

\* how many invocations follow one another on the same file system
MaxRuns == 2

FlagOrder == <<OptForce, OptYes, OptNoStart, OptSkipEnv>>
flagTokens(S) == SelectSeq(FlagOrder, LAMBDA t : t \in S)

UrlH == <<"ws:", "/", "/", "h:", "1">>
TokenAbc == <<"abc">>
PasswordPw == <<"pw">>
Port4000 == <<"4", "0", "0", "0">>
Port70000 == <<"7", "0", "0", "0", "0">>
DemoDir == <<".", "/", "demo">>

\* the option values an invocation gives
ValueProfiles ==
    {<<>>,
     <<OptProjectName, <<"demo">>, OptGatewayUrl, UrlH, OptGatewayToken, TokenAbc,
       OptGatewayPassword, PasswordPw, OptPort, Port4000>>,
     <<OptGatewayUrl, UrlH, OptGatewayToken, TokenAbc, OptPort, Port4000>>,
     <<OptProjectName, <<".">>, OptPort, Port70000>>,
     <<OptGatewayUrl \o <<"=">>, OptPort \o <<"=", "abc">>, OptGatewayToken>>}

ScenarioValues == <<OptGatewayUrl, UrlH, OptGatewayToken, TokenAbc, OptPort, Port4000>>

Argvs ==
    {flagTokens(S) : S \in SUBSET {OptForce, OptYes, OptNoStart, OptSkipEnv}}
    \cup {flagTokens(S) \o v :
             S \in {{}, {OptYes}, {OptForce, OptYes, OptNoStart}},
             v \in ValueProfiles}
    \cup {<<<<"init">>>> \o t \o flagTokens(S) :
             t \in {<<>>, <<DemoDir>>}, S \in SUBSET {OptForce, OptYes, OptSkipEnv}}
    \cup {<<<<"init">>>> \o t \o flagTokens(S) \o ScenarioValues :
             t \in {<<>>, <<DemoDir>>},
             S \in {{OptForce, OptYes, OptNoStart},
                    {OptForce, OptYes, OptNoStart, OptSkipEnv}}}
    \cup {<<<<"doctor">>>>, <<<<"dev">>>>, <<<<"lint">>>>, <<<<"bogus">>>>,
          <<HelpShort>>, <<<<"init">>, HelpLong>>}

\* what the user types, one line per prompt
StdinScripts ==
    {<<<<>>, <<>>, <<>>, <<>>, <<>>>>,
     <<<<"demo">>, <<"ws:", "/", "/", "g">>, <<"tok">>, <<"secret">>,
       <<"8", "0", "8", "0">>>>,
     <<<<"Y">>, <<" ", "yes">>, <<" ", " ">>, <<"t", " ">>, <<"0">>>>}

\* the tool's own installation, with or without the checkout that
\* getLocalTemplateSource looks for
ToolTrees ==
    {(LOCAL_TEMPLATE_ROOT :> DirNode),
     plant((LOCAL_TEMPLATE_ROOT :> DirNode), LOCAL_TEMPLATE_ROOT,
           (<<".git">> :> DirNode)
           @@ (<<"node_modules">> :> DirNode)
           @@ (AppsWebclaw \o <<".env.local">> :> FileNode(<<"local">>))
           @@ TemplateTree(DevWithPort))}

\* the current directory before the first invocation
CwdTrees ==
    {<<>>,
     (<<".git">> :> DirNode),
     (<<"notes.txt">> :> FileNode(<<>>)),
     (<<"demo">> :> DirNode),
     (<<"demo">> :> DirNode) @@ (<<"demo", ".git">> :> DirNode),
     (<<"demo">> :> DirNode) @@ (<<"demo", ".DS_Store">> :> FileNode(<<>>)),
     (<<"demo">> :> DirNode) @@ (<<"demo", "notes.txt">> :> FileNode(<<>>)),
     (<<"demo">> :> DirNode) @@ (<<"demo", ".git">> :> DirNode)
         @@ (<<"demo", "notes.txt">> :> FileNode(<<>>)),
     (<<".git">> :> DirNode) @@ TemplateTree(DevWithPort)}

InitialFileSystems ==
    {plant(plant(tool, TmpDir, <<>>), Cwd, tree) :
        tool \in ToolTrees, tree \in CwdTrees}

Init ==
    /\ fs \in InitialFileSystems
    /\ argv \in Argvs
    /\ stdinIsTTY \in BOOLEAN
    /\ stdoutIsTTY \in BOOLEAN
    /\ stdin \in StdinScripts
    /\ (~stdinIsTTY \/ ~stdoutIsTTY) => stdin = <<<<>>, <<>>, <<>>, <<>>, <<>>>>
    /\ parsedArgs = EmptyParsed
    /\ consumed = 0
    /\ pc = "main"
    /\ exitCode = <<>>
    /\ log = <<>>
    /\ cfg = <<>>
    /\ answers = <<>>
    /\ targetDir = <<>>
    /\ run = 1
    /\ fsStart = fs
    /\ prev = <<>>

GuardErrors == {"target-not-empty", "refuse-current-dir"}

\* the run ended at one of the directory guards of initProject
endedAtGuard ==
    /\ pc = "exited"
    /\ \E i \in 1..Len(log) : log[i].t = "stderr" /\ log[i].a \in GuardErrors

\* the same invocation is made again, on the file system the last one left,
\* after a run that was refused at a guard or that ended with exit code 0
Rerun ==
    /\ pc = "exited"
    /\ run < MaxRuns
    /\ (endedAtGuard \/ exitCode = <<0>>)
    /\ run' = run + 1
    /\ prev' = IF endedAtGuard
               THEN <<[exitCode |-> exitCode[1],
                       stderr |-> SelectSeq(log, LAMBDA e : e.t = "stderr"),
                       targetDir |-> targetDir]>>
               ELSE <<>>
    /\ fsStart' = fs
    /\ parsedArgs' = EmptyParsed
    /\ consumed' = 0
    /\ pc' = "main"
    /\ exitCode' = <<>>
    /\ log' = <<>>
    /\ cfg' = <<>>
    /\ answers' = <<>>
    /\ targetDir' = <<>>
    /\ UNCHANGED <<fs, argv, stdinIsTTY, stdoutIsTTY, stdin>>

Next ==
    \/ Main
    \/ AskBootstrapConfig
    \/ AskQuestion
    \/ InitProject
    \/ PopulateTemplate
    \/ EnsureGitRepository
    \/ SetDevPort
    \/ MaybeSetupEnv
    \/ Report
    \/ InstallDependencies
    \/ StartProject
    \/ Doctor
    \/ RunProjectScript
    \/ Rerun

Spec == Init /\ [][Next]_vars

\* ------------------------------------------------------------ properties

StderrOf(l) == SelectSeq(l, LAMBDA e : e.t = "stderr")
PromptsOf(l) == SelectSeq(l, LAMBDA e : e.t = "prompt")
SpawnsOf(l) == SelectSeq(l, LAMBDA e : e.t = "spawn")
Logged(t, a) == \E i \in 1..Len(log) : log[i].t = t /\ log[i].a = a

\* the run is the default bootstrap or `init` and has resolved its target
InInitProject == targetDir # <<>>

\* C1: for the default bootstrap and for `init`, a target that exists and is
\* not empty (an entry other than .git and .DS_Store) with --force absent ends
\* the run with exit code 1 and the guard error naming the target, the file
\* system being what it was when the run began; a second run of the same
\* invocation ends with the same exit code and the same message and again
\* leaves the file system as it was.
C1_GuardLeavesFileSystem ==
    /\ (InInitProject /\ ~force /\ ~isDirEmpty(fsStart, targetDir))
          => /\ pc = "exited"
             /\ exitCode = <<1>>
             /\ StderrOf(log) = <<Err("target-not-empty", targetDir)>>
             /\ fs = fsStart
    /\ (pc = "exited" /\ prev # <<>> /\ prev[1].stderr[1].a = "target-not-empty")
          => /\ exitCode = <<prev[1].exitCode>>
             /\ StderrOf(log) = prev[1].stderr
             /\ targetDir = prev[1].targetDir
             /\ fs = fsStart

\* a second run of the default bootstrap ended at the guard as the first did
C1_Witness ==
    /\ run = 2
    /\ pc = "exited"
    /\ command = <<>>
    /\ prev # <<>>
    /\ prev[1].stderr = <<Err("target-not-empty", targetDir)>>
    /\ exitCode = <<1>>
    /\ ~isDirEmpty(fsStart, targetDir)

\* C2: a run that ends in one of the two directory guards has removed no
\* entry, copied or cloned nothing and written no manifest and no env file:
\* the file system is what it was when the run began and nothing was spawned;
\* --force on a current directory that is not empty exits 1 and deletes
\* nothing.
C2_GuardsBeforeDestruction ==
    /\ endedAtGuard
          => /\ fs = fsStart
             /\ exitCode = <<1>>
             /\ \A i \in 1..Len(log) : log[i].t \notin {"spawn", "fs"}
    /\ (InInitProject /\ targetDir = Cwd /\ force /\ ~isDirEmpty(fsStart, Cwd))
          => /\ pc = "exited"
             /\ exitCode = <<1>>
             /\ StderrOf(log) = <<Err("refuse-current-dir", <<>>)>>
             /\ fs = fsStart

\* --force on the current directory, which holds a file, was refused
C2_Witness ==
    /\ pc = "exited"
    /\ targetDir = Cwd
    /\ force
    /\ existsSync(fsStart, pathJoin(Cwd, <<"notes.txt">>))
    /\ Logged("stderr", "refuse-current-dir")

\* C3: on the clone-then-copy path the temporary directory made for the clone
\* is gone once populateTemplate is left, also when the copy into the target
\* failed.
C3_StagingDirRemoved ==
    \A i \in 1..Len(log) :
        (/\ log[i].t = "fs" /\ log[i].a = "mkdtemp"
         /\ \E j \in 1..Len(log) :
               log[j].t = "spawn" /\ log[j].a = "git clone" /\ Succeeded(log[j].r[1])
         /\ Logged("fs", "copy"))
            => ~existsSync(fs, log[i].d)

\* every subprocess of the run ended with status 0 and nothing was thrown
AllWentWell ==
    /\ \A i \in 1..Len(log) : log[i].t = "spawn" => Succeeded(log[i].r[1])
    /\ ~Logged("stderr", "error")

ScenarioArgv ==
    <<<<"init">>, DemoDir, OptForce, OptYes, OptNoStart>> \o ScenarioValues

DemoPath == pathJoin(Cwd, <<"demo">>)

\* the dev script of the manifest setDevPort looks at, <<>> if there is none
devScriptOf(f, dir) ==
    LET nested == pathJoin(dir, AppsWebclaw \o <<"package.json">>)
        root == pathJoin(dir, <<"package.json">>)
    IN  IF existsSync(f, nested) THEN f[nested].text
        ELSE IF existsSync(f, root) THEN f[root].text
        ELSE <<>>

\* C4: `init ./demo --force --yes --no-start --gateway-url U --gateway-token T
\* --port 4000` on an empty ./demo, every subprocess succeeding, ends with
\* exit code 0, ./demo populated, a .git directory, an env file with the URL
\* and the token lines and no password line, a dev script with `--port 4000`,
\* and neither install nor start spawned.
C4_InitScenario ==
    (/\ argv = ScenarioArgv
     /\ existsSync(fsStart, DemoPath) /\ readdirSync(fsStart, DemoPath) = {}
     /\ pc = "exited"
     /\ AllWentWell)
        => /\ exitCode = <<0>>
           /\ existsSync(fs, pathJoin(DemoPath, <<"package.json">>))
           /\ existsSync(fs, pathJoin(DemoPath, <<".git">>))
           /\ existsSync(fs, resolveEnvFile(fs, DemoPath))
           /\ LET text == fs[resolveEnvFile(fs, DemoPath)].text
              IN  /\ includes(text, envLine(KeyUrl, UrlH) \o <<"\n">>)
                  /\ includes(text, envLine(KeyToken, TokenAbc) \o <<"\n">>)
                  /\ ~includes(text, <<KeyPassword>>)
           /\ includes(devScriptOf(fs, DemoPath), PortFlag \o <<" ">> \o Port4000)
           /\ \A i \in 1..Len(log) :
                 log[i].t = "spawn" => log[i].a \in {"git clone", "git init"}

StageNames == <<"populate", "git", "port", "env", "install", "start">>
StageRank(a) == CHOOSE k \in 1..Len(StageNames) : StageNames[k] = a
IsStageEvent(e) == e.t \in {"begin", "end"}
StageEvents == SelectSeq(log, IsStageEvent)

\* C5: in every run the stages come in the order template population, git
\* bootstrapping, dev-port patch, env writing, dependency installation,
\* project start; a stage begins only when the stage begun before it has
\* ended; install begins only after git bootstrapping and env writing have
\* ended, and start only after install has ended.
C5_StageOrder ==
    LET ev == StageEvents
        endedBefore(stage, j) ==
            \E i \in 1..(j - 1) : ev[i].t = "end" /\ ev[i].a = stage
    IN  \A j \in 1..Len(ev) :
            /\ j > 1 => StageRank(ev[j - 1].a) <= StageRank(ev[j].a)
            /\ ev[j].t = "begin" => (j = 1 \/ ev[j - 1].t = "end")
            /\ ev[j].t = "end" => (j > 1 /\ ev[j - 1] = Begin(ev[j].a))
            /\ (ev[j].t = "begin" /\ ev[j].a = "install") =>
                  endedBefore("git", j) /\ endedBefore("env", j)
            /\ (ev[j].t = "begin" /\ ev[j].a = "start") =>
                  endedBefore("install", j)

\* a run went through all six stages
C5_Witness ==
    /\ pc = "exited"
    /\ \A k \in 1..Len(StageNames) : Logged("end", StageNames[k])

\* the subprocesses runCommand runs
Orchestrated(e) ==
    e.t = "spawn" /\ e.a \notin {"git init", "pnpm --version"}

FailedWith(e) ==
    IF e.r[1].status # <<>> /\ e.r[1].status # <<0>> THEN e.r[1].status ELSE <<>>

\* C6: when a subprocess run by runCommand (git clone, install, dev start, a
\* pass-through script) ends with a status s other than 0, the process ends
\* with exit code s; the subprocess is the last thing the run did: nothing is
\* tried again and no later stage runs.
C6_StatusPropagated ==
    \A i \in 1..Len(log) :
        (Orchestrated(log[i]) /\ FailedWith(log[i]) # <<>>)
            => /\ i = Len(log)
               /\ pc = "exited"
               /\ exitCode = FailedWith(log[i])

\* the install subprocess ended with status 2 and so did the tool
C6_Witness ==
    /\ pc = "exited"
    /\ exitCode = <<2>>
    /\ log # <<>>
    /\ log[Len(log)].t = "spawn"
    /\ log[Len(log)].a \in {"pnpm install", "npm install"}

\* the step of ensureGitRepository added `git init` to the log
GitInitSpawned == Len(log') > Len(log) + 1 /\ log'[Len(log) + 2].t = "spawn"

\* C7: ensureGitRepository does not run `git init` when the target has .git;
\* whatever `git init` gives (status 0, another status, failure to spawn),
\* the flow goes on to the port patch with no exit; 'Initialized git
\* repository' is printed only when `git init` gave status 0.
C7_GitInitNotFatal ==
    [][pc = "ensureGitRepository" =>
          /\ pc' = "setDevPort"
          /\ exitCode' = <<>>
          /\ existsSync(fs, pathJoin(targetDir, <<".git">>)) => ~GitInitSpawned
          /\ (\E i \in (Len(log) + 1)..Len(log') :
                 log'[i].t = "stdout" /\ log'[i].a = "git-initialized")
                => /\ GitInitSpawned
                   /\ log'[Len(log) + 2].r[1].status = <<0>>]_vars

\* `git init` could not be spawned and the flow is at the port patch
C7_Witness ==
    /\ pc = "setDevPort"
    /\ \E i \in 1..Len(log) :
          /\ log[i].t = "spawn" /\ log[i].a = "git init" /\ log[i].r[1].error
          /\ ~existsSync(fs, pathJoin(targetDir, <<".git">>))

\* C8: with --yes, or with standard input or standard output not a terminal,
\* the run asks nothing, for the default bootstrap and for `init`.
C8_NoPromptWhenNonInteractive ==
    (OptYes \in options \/ ~stdinIsTTY \/ ~stdoutIsTTY) => PromptsOf(log) = <<>>

EnvPrompts ==
    {"gateway-url", "gateway-token", "gateway-password", "create-env",
     "overwrite-env", "env-gateway-url", "env-gateway-token"}

IsEnvFile(p) == p[Len(p)] = ".env.local" /\ isPrefix(Cwd, p)

\* C9: with --skip-env the run asks for no env-file value and no env-file
\* confirmation, and creates or changes no env file.
C9_SkipEnv ==
    OptSkipEnv \in options =>
        /\ \A i \in 1..Len(log) : ~(log[i].t = "prompt" /\ log[i].a \in EnvPrompts)
        /\ \A p \in DOMAIN fs :
              IsEnvFile(p) => (p \in DOMAIN fsStart /\ fs[p] = fsStart[p])

supplied(opt) == opt \in DOMAIN parsed.values /\ parsed.values[opt] # <<>>
flagOr(opt, dflt) == IF supplied(opt) THEN parsed.values[opt] ELSE dflt

\* askBootstrapConfig has just returned, without prompting
OnNonInteractivePath ==
    /\ pc = "initProject"
    /\ cfg # <<>>
    /\ nonInteractive(parsed, stdinIsTTY, stdoutIsTTY)

TextFieldsFollowFlags ==
    /\ cfg[1].projectName = flagOr(OptProjectName, <<"webclaw">>)
    /\ cfg[1].envValues.gatewayUrl = flagOr(OptGatewayUrl, DefaultGatewayUrl)
    /\ cfg[1].envValues.gatewayToken = flagOr(OptGatewayToken, <<>>)
    /\ cfg[1].envValues.gatewayPassword = flagOr(OptGatewayPassword, <<>>)
    /\ cfg[1].autoStart = (\A i \in 1..Len(argv) : argv[i] # OptNoStart)

\* C10 as stated: on the non-interactive path every field of the configuration
\* is the value of its flag when the flag has a non-empty value and the
\* built-in default otherwise, the port included, and autoStart is true
\* exactly when --no-start is absent.
C10_FieldsAreFlagValues ==
    OnNonInteractivePath =>
        /\ TextFieldsFollowFlags
        /\ IF supplied(OptPort)
           THEN numberToString(cfg[1].port) = parsed.values[OptPort]
           ELSE cfg[1].port = 3000

\* C10, amended: as above, but the port is the number the value of --port
\* stands for when that is an integer from 1 to 65535, and 3000 for any other
\* value of --port as well as without one.
C10_FieldsFollowFlags ==
    OnNonInteractivePath =>
        /\ TextFieldsFollowFlags
        /\ LET n == stringToNumber(flagOr(OptPort, <<>>))
           IN  IF supplied(OptPort) /\ ~n.nan /\ n.int /\ n.val >= 1 /\ n.val <= 65535
               THEN cfg[1].port = n.val
               ELSE cfg[1].port = 3000

\* --port 70000 was given and the configuration has the default port
C10_Witness ==
    /\ OnNonInteractivePath
    /\ supplied(OptPort) /\ parsed.values[OptPort] = Port70000
    /\ cfg[1].port = 3000
    /\ cfg[1].projectName = <<".">>

\* whether the text stands for a port parsePort accepts
IsPortText(s) ==
    LET n == stringToNumber(s)
    IN  s # <<>> /\ ~n.nan /\ n.int /\ n.val >= 1 /\ n.val <= 65535

\* the default each question of askBootstrapConfig shows
PrefilledPort ==
    IF supplied(OptPort) /\ IsPortText(parsed.values[OptPort])
    THEN stringToNumber(parsed.values[OptPort]).val
    ELSE 3000

\* the answer if it is not empty, the default otherwise
answerOr(k, dflt) == IF answers[k] # <<>> THEN answers[k] ELSE dflt

\* askBootstrapConfig has just returned, having asked its questions
OnInteractivePath ==
    /\ pc = "initProject"
    /\ cfg # <<>>
    /\ ~(OptYes \in options \/ ~stdinIsTTY \/ ~stdoutIsTTY)

\* the questions asked so far are the first of the five, in the order project
\* name, gateway URL, gateway token, gateway password, port; each was asked
\* when the answers to all before it had been read
PromptsInOrder ==
    (command = <<>> /\ pc \in {"askQuestion", "initProject"}) =>
        /\ Len(PromptsOf(log)) = Len(answers)
        /\ consumed = Len(answers)
        /\ \A k \in 1..Len(answers) :
              /\ PromptsOf(log)[k].a =
                    <<"project-name", "gateway-url", "gateway-token",
                      "gateway-password", "port">>[k]
              /\ answers[k] = trim(stdin[k])
        /\ pc = "initProject" =>
              Len(answers) = (IF OnInteractivePath THEN 5 ELSE 0)

TextFieldsFollowAnswers ==
    /\ cfg[1].projectName = answerOr(1, flagOr(OptProjectName, <<"webclaw">>))
    /\ cfg[1].envValues.gatewayUrl = answerOr(2, flagOr(OptGatewayUrl, DefaultGatewayUrl))
    /\ cfg[1].envValues.gatewayToken = answerOr(3, flagOr(OptGatewayToken, <<>>))
    /\ cfg[1].envValues.gatewayPassword = answerOr(4, flagOr(OptGatewayPassword, <<>>))

\* C11 as stated: on the interactive path the five questions are asked one at
\* a time in the order project name, gateway URL, gateway token, gateway
\* password, port; for every field, the port included, an empty or
\* white-space answer gives the pre-filled default and any other answer is
\* the value of the field.
C11_AnswersOverride ==
    /\ PromptsInOrder
    /\ OnInteractivePath =>
          /\ TextFieldsFollowAnswers
          /\ IF answers[5] = <<>>
             THEN cfg[1].port = PrefilledPort
             ELSE /\ ~stringToNumber(answers[5]).nan
                  /\ cfg[1].port = stringToNumber(answers[5]).val

\* C11, amended: as above for the order and for the four text fields; the
\* port is the number the answer stands for when that is an integer from 1 to
\* 65535, and the pre-filled default for an empty answer and for every other
\* answer.
C11_AnswersFollowPrompts ==
    /\ PromptsInOrder
    /\ OnInteractivePath =>
          /\ TextFieldsFollowAnswers
          /\ cfg[1].port = IF IsPortText(answers[5])
                           THEN stringToNumber(answers[5]).val
                           ELSE PrefilledPort

\* the token was answered with white space and --gateway-token abc given; the
\* port was answered with 0 and --port 4000 given
C11_Witness ==
    /\ OnInteractivePath
    /\ stdin[3] = <<" ", " ">>
    /\ supplied(OptGatewayToken)
    /\ cfg[1].envValues.gatewayToken = <<"abc">>
    /\ cfg[1].envValues.gatewayUrl = <<"yes">>
    /\ answers[5] = <<"0">>
    /\ cfg[1].port = 4000

\* the checkout beside the tool holds both manifests of the template
LocalTemplateThere ==
    /\ <<"tool", "package.json">> \in DOMAIN fsStart
    /\ <<"tool", "apps", "webclaw", "package.json">> \in DOMAIN fsStart

CloneSpawns == SelectSeq(log, LAMBDA e : e.t = "spawn" /\ e.a = "git clone")
TempDirsMade == SelectSeq(log, LAMBDA e : e.t = "fs" /\ e.a = "mkdtemp")

\* the work tree of the template is in the target
TemplateInTarget ==
    \A r \in DOMAIN TemplateTree(DevWithPort) : (targetDir \o r) \in DOMAIN fs

\* C12: populateTemplate follows its decision table.  With a local template
\* the local tree is copied into the target and nothing is cloned.  Without
\* one and with a target other than the current directory there is exactly
\* one clone, into the target, and no temporary directory.  Without one and
\* with the current directory as target a fresh temporary directory is made
\* and the one clone goes into it; when populateTemplate returns, its tree
\* has been copied into the target and the temporary directory is gone.
C12_PopulateDecisionTable ==
    Logged("begin", "populate") =>
        /\ LocalTemplateThere =>
              /\ CloneSpawns = <<>> /\ TempDirsMade = <<>>
              /\ Logged("fs", "copy-local")
              /\ Logged("end", "populate") => TemplateInTarget
        /\ (~LocalTemplateThere /\ targetDir # Cwd) =>
              /\ Len(CloneSpawns) = 1 /\ CloneSpawns[1].d = targetDir
              /\ TempDirsMade = <<>>
              /\ ~Logged("fs", "copy") /\ ~Logged("fs", "copy-local")
              /\ \A p \in DOMAIN fs : p[1] = "tmp" => p \in DOMAIN fsStart
        /\ (~LocalTemplateThere /\ targetDir = Cwd) =>
              /\ Len(TempDirsMade) = 1
              /\ TempDirsMade[1].d \notin DOMAIN fsStart
              /\ TempDirsMade[1].d[1] = "tmp"
              /\ Len(CloneSpawns) = 1
              /\ CloneSpawns[1].d = TempDirsMade[1].d \o <<"repo">>
              /\ ~Logged("fs", "copy-local")
              /\ Logged("end", "populate") =>
                    /\ Logged("fs", "copy")
                    /\ TemplateInTarget
                    /\ \A p \in DOMAIN fs : ~isPrefix(TempDirsMade[1].d, p)

\* the row of the temporary directory was taken to its end: the template is
\* in the current directory and the temporary directory was removed
C12_Witness ==
    /\ Logged("end", "populate")
    /\ ~LocalTemplateThere
    /\ targetDir = Cwd
    /\ Logged("fs", "rm")
    /\ <<"cwd", "apps", "webclaw", "package.json">> \in DOMAIN fs

\* the lines of a text: what stands before each "\n"
RECURSIVE linesOf(_)
linesOf(text) ==
    LET nl == indexOf(text, "\n")
    IN  IF text = <<>> THEN <<>>
        ELSE IF nl = 0 THEN <<text>>
        ELSE <<SubSeq(text, 1, nl - 1)>> \o linesOf(SubSeq(text, nl + 1, Len(text)))

EnvFileWritten == SelectSeq(log, LAMBDA e : e.t = "fs" /\ e.a = "write-env")

\* C13: the file writeEnvFile has written holds exactly the line
\* CLAWDBOT_GATEWAY_URL=..., then the line CLAWDBOT_GATEWAY_TOKEN=..., and,
\* only when the password is not empty, the line CLAWDBOT_GATEWAY_PASSWORD=...
\* after them: two lines with an empty password, three otherwise, each ended
\* by a line feed; the token line is there also when the token is empty.
C13_EnvFileLines ==
    EnvFileWritten # <<>> =>
        LET envFile == EnvFileWritten[1].d
            text == fs[envFile].text
            lines == linesOf(text)
        IN  /\ envFile \in DOMAIN fs
            /\ text[Len(text)] = "\n"
            /\ Len(lines) \in {2, 3}
            /\ SubSeq(lines[1], 1, 2) = <<"CLAWDBOT_GATEWAY_URL", "=">>
            /\ SubSeq(lines[2], 1, 2) = <<"CLAWDBOT_GATEWAY_TOKEN", "=">>
            /\ Len(lines) = 3 =>
                  /\ SubSeq(lines[3], 1, 2) = <<"CLAWDBOT_GATEWAY_PASSWORD", "=">>
                  /\ Len(lines[3]) > 2
            /\ cfg # <<>> =>
                  /\ lines[1] = <<"CLAWDBOT_GATEWAY_URL", "=">>
                                \o cfg[1].envValues.gatewayUrl
                  /\ lines[2] = <<"CLAWDBOT_GATEWAY_TOKEN", "=">>
                                \o cfg[1].envValues.gatewayToken
                  /\ Len(lines) = (IF cfg[1].envValues.gatewayPassword = <<>>
                                   THEN 2 ELSE 3)
                  /\ Len(lines) = 3 =>
                        lines[3] = <<"CLAWDBOT_GATEWAY_PASSWORD", "=">>
                                   \o cfg[1].envValues.gatewayPassword
            /\ cfg = <<>> => Len(lines) = 2

\* the file was written with an empty token and a password: three lines, the
\* second being the bare token assignment
C13_Witness ==
    /\ EnvFileWritten # <<>>
    /\ cfg # <<>>
    /\ cfg[1].envValues.gatewayToken = <<>>
    /\ cfg[1].envValues.gatewayPassword # <<>>
    /\ linesOf(fs[EnvFileWritten[1].d].text)[2] = <<"CLAWDBOT_GATEWAY_TOKEN", "=">>
    /\ Len(linesOf(fs[EnvFileWritten[1].d].text)) = 3

\* ------------------------------------------------------------ port inputs
\* askBootstrapConfig alone, on the texts a port may be given as

PortTexts ==
    {<<"0">>, <<"1">>, <<"6", "5", "5", "3", "5">>, <<"6", "5", "5", "3", "6">>,
     <<"-", "1">>, <<"abc">>, <<"3", ".", "5">>, <<" ", "8", "0", "8", "0">>,
     Port4000, Port70000}

PortArgvs ==
    {<<>>, <<OptYes>>}
    \cup {<<OptPort, v>> : v \in PortTexts}
    \cup {<<OptPort \o <<"=">> \o v>> : v \in PortTexts}

PortInit ==
    /\ fs = plant(plant((LOCAL_TEMPLATE_ROOT :> DirNode), TmpDir, <<>>), Cwd, <<>>)
    /\ argv \in PortArgvs
    /\ stdinIsTTY \in BOOLEAN
    /\ stdoutIsTTY \in BOOLEAN
    /\ \E a \in PortTexts \cup {<<>>} : stdin = <<<<>>, <<>>, <<>>, <<>>, a>>
    /\ (~stdinIsTTY \/ ~stdoutIsTTY) => stdin = <<<<>>, <<>>, <<>>, <<>>, <<>>>>
    /\ parsedArgs = EmptyParsed
    /\ consumed = 0
    /\ pc = "main"
    /\ exitCode = <<>>
    /\ log = <<>>
    /\ cfg = <<>>
    /\ answers = <<>>
    /\ targetDir = <<>>
    /\ run = 1
    /\ fsStart = fs
    /\ prev = <<>>

PortNext == Main \/ AskBootstrapConfig \/ AskQuestion

PortSpec == PortInit /\ [][PortNext]_vars

\* C14: whatever --port is given as and whatever the port question is
\* answered, the port of the configuration is an integer from 1 to 65535: a
\* text that reads as an integer of that range (1 and 65535 included) is the
\* port, any other text (0, 65536, -1, not a number) leaves the pre-filled
\* default, and nothing is reported as an error.
C14_PortInRange ==
    (pc = "initProject" /\ cfg # <<>>) =>
        /\ cfg[1].port \in 1..65535
        /\ exitCode = <<>>
        /\ StderrOf(log) = <<>>
        /\ LET flagText == IF <<"-", "-", "port">> \in DOMAIN parsed.values
                           THEN parsed.values[<<"-", "-", "port">>] ELSE <<>>
               fromFlag == IF IsPortText(flagText)
                           THEN stringToNumber(flagText).val ELSE 3000
           IN  cfg[1].port =
                  IF answers # <<>> /\ IsPortText(answers[5])
                  THEN stringToNumber(answers[5]).val
                  ELSE fromFlag

\* --port 1 was given and the port question answered 65536: the port is 1
C14_Witness ==
    /\ pc = "initProject"
    /\ argv = <<OptPort, <<"1">>>>
    /\ answers # <<>>
    /\ answers[5] = <<"6", "5", "5", "3", "6">>
    /\ cfg # <<>>
    /\ cfg[1].port = 1

\* ------------------------------------------------------------ token sequences
\* parseCliArgs alone, on every short sequence of the tokens below

\* the longest token sequence given to parseCliArgs
MaxArgs == 3

ParseTokens ==
    {OptPort, OptGatewayToken, OptForce, HelpShort, <<"init">>, <<"doctor">>,
     <<"lint">>, <<"1">>, <<>>, OptPort \o <<"=", "5">>}

ParseArgvs == UNION {[1..n -> ParseTokens] : n \in 0..MaxArgs}

ParseInit ==
    /\ fs = plant(plant((LOCAL_TEMPLATE_ROOT :> DirNode), TmpDir, <<>>), Cwd, <<>>)
    /\ argv \in ParseArgvs
    /\ stdinIsTTY = FALSE
    /\ stdoutIsTTY = FALSE
    /\ stdin = <<<<>>, <<>>, <<>>, <<>>, <<>>>>
    /\ parsedArgs = EmptyParsed
    /\ consumed = 0
    /\ pc = "main"
    /\ exitCode = <<>>
    /\ log = <<>>
    /\ cfg = <<>>
    /\ answers = <<>>
    /\ targetDir = <<>>
    /\ run = 1
    /\ fsStart = fs
    /\ prev = <<>>

ParseNext == Main

ParseSpec == ParseInit /\ [][ParseNext]_vars

\* main has parsed argv
Parsed == pc # "main"

ValueBearing ==
    {<<"-", "-", "project", "-", "name">>, <<"-", "-", "gateway", "-", "url">>,
     <<"-", "-", "gateway", "-", "token">>, <<"-", "-", "gateway", "-", "password">>,
     <<"-", "-", "port">>}

Dashed(tok) == tok # <<>> /\ tok[1] = "-"
DoubleDashed(tok) == Len(tok) >= 2 /\ tok[1] = "-" /\ tok[2] = "-"
HasEquals(tok) == \E k \in 1..Len(tok) : tok[k] = "="
FirstEquals(tok) == CHOOSE k \in 1..Len(tok) :
                       tok[k] = "=" /\ \A j \in 1..(k - 1) : tok[j] # "="

\* the token at i is a value-bearing option and the next token is its value;
\* asStated: any next token not starting with `-`; otherwise: any such token
\* that is not empty
TakesNext(i, asStated) ==
    /\ argv[i] \in ValueBearing
    /\ i < Len(argv)
    /\ ~Dashed(argv[i + 1])
    /\ asStated \/ argv[i + 1] # <<>>

\* how the token at i is accounted for
KindOf(i, asStated) ==
    IF i > 1 /\ TakesNext(i - 1, asStated) THEN "value"
    ELSE IF ~Dashed(argv[i]) THEN "positional"
    ELSE IF ~DoubleDashed(argv[i]) \/ argv[i] = <<"-", "-", "help">> THEN "flag"
    ELSE IF HasEquals(argv[i]) THEN "keyvalue"
    ELSE IF TakesNext(i, asStated) THEN "option"
    ELSE "flag"

IndicesOf(kinds, asStated) == {i \in 1..Len(argv) : KindOf(i, asStated) \in kinds}

\* the key the token at i sets in values, and the value it sets it to
KeyAt(i) ==
    IF HasEquals(argv[i]) THEN SubSeq(argv[i], 1, FirstEquals(argv[i]) - 1)
    ELSE argv[i]
ValueAt(i) ==
    IF HasEquals(argv[i])
    THEN SubSeq(argv[i], FirstEquals(argv[i]) + 1, Len(argv[i]))
    ELSE argv[i + 1]

\* the tokens of kind positional, in the order of argv
PositionalsRef(asStated) ==
    LET idx == IndicesOf({"positional"}, asStated)
        nth(k) == CHOOSE i \in idx : Cardinality({j \in idx : j <= i}) = k
    IN  [k \in 1..Cardinality(idx) |-> argv[nth(k)]]

\* the token at j is found where its own form puts it
ClassifiedAlone(j, asStated) ==
    LET kind == KindOf(j, asStated)
    IN  /\ kind # "value"
        /\ kind = "flag" => argv[j] \in parsed.flags
        /\ kind \in {"keyvalue", "option"} => KeyAt(j) \in DOMAIN parsed.values
        /\ kind = "positional" =>
              \E k \in 1..Len(parsed.positionals) : parsed.positionals[k] = argv[j]

OptionRule(asStated) ==
    /\ parsed.positionals = PositionalsRef(asStated)
    /\ \A i \in 1..Len(argv) :
          argv[i] \in ValueBearing =>
             IF TakesNext(i, asStated)
             THEN /\ argv[i] \in DOMAIN parsed.values
                  /\ (\A j \in (i + 1)..Len(argv) :
                         KindOf(j, asStated) \in {"keyvalue", "option"}
                            => KeyAt(j) # argv[i])
                        => parsed.values[argv[i]] = argv[i + 1]
             ELSE /\ argv[i] \in parsed.flags
                  /\ argv[i] \in DOMAIN parsed.values =>
                        \E j \in IndicesOf({"keyvalue", "option"}, asStated) :
                           j # i /\ KeyAt(j) = argv[i]
                  /\ i < Len(argv) => ClassifiedAlone(i + 1, asStated)

\* C15 as stated: a value-bearing option that is the last token or is followed
\* by a token starting with `-` takes no value: it is put in flags, sets no
\* value, and the next token is classified on its own; followed by any token
\* not starting with `-` it takes exactly that token as its value, and the
\* token is no positional.
C15_OptionTakesNextToken == Parsed => OptionRule(TRUE)

\* C15, amended: as above, but an empty token after the option is not taken
\* as its value either: the option is put in flags and the empty token is a
\* positional.
C15_OptionTakesNextNonEmptyToken == Parsed => OptionRule(FALSE)

\* `--port 1 --gateway-token` was parsed: --port has the value 1, no
\* positional, and --gateway-token, the last token, is a flag
C15_Witness ==
    /\ Parsed
    /\ argv = <<OptPort, <<"1">>, OptGatewayToken>>
    /\ parsed.values = (OptPort :> <<"1">>)
    /\ parsed.flags = {OptGatewayToken}
    /\ parsed.positionals = <<>>

Setters == IndicesOf({"keyvalue", "option"}, FALSE)
LastSetter(key) ==
    CHOOSE i \in Setters :
        KeyAt(i) = key /\ \A j \in Setters : KeyAt(j) = key => j <= i

\* C16: parseCliArgs accounts for every token exactly once, going from left
\* to right: as a flag, as a key of values (with the text after `=` or with
\* the next token as its value), as the value an option took, or as a
\* positional.  flags holds the tokens accounted for as flags, positionals
\* those accounted for as positionals in the order of the input, values the
\* last value set for each key; parsing the same tokens again gives the same
\* result.
C16_ParseAccountsForEveryToken ==
    Parsed =>
        /\ \A i \in 1..Len(argv) :
              KindOf(i, FALSE) = "value" <=>
                 (i > 1 /\ KindOf(i - 1, FALSE) = "option")
        /\ parsed.flags = {argv[i] : i \in IndicesOf({"flag"}, FALSE)}
        /\ parsed.positionals = PositionalsRef(FALSE)
        /\ DOMAIN parsed.values = {KeyAt(i) : i \in Setters}
        /\ \A key \in DOMAIN parsed.values :
              parsed.values[key] = ValueAt(LastSetter(key))
        /\ Len(parsed.positionals)
              + Cardinality(IndicesOf({"flag", "keyvalue", "option", "value"}, FALSE))
              = Len(argv)
        /\ parseCliArgs(argv) = parsed

\* `--port 1 --port=5` was parsed: the key --port keeps 5, the value set last,
\* and the token 1, taken as a value, is no positional
C16_Witness ==
    /\ Parsed
    /\ argv = <<OptPort, <<"1">>, OptPort \o <<"=", "5">>>>
    /\ parsed.values = (OptPort :> <<"5">>)
    /\ parsed.flags = {}
    /\ parsed.positionals = <<>>

HelpAsked == \E i \in 1..Len(argv) : argv[i] \in {<<"-", "h">>, <<"-", "-", "help">>}

\* the first positional of argv, <<>> when there is none
FirstPositional ==
    IF PositionalsRef(FALSE) = <<>> THEN <<>> ELSE PositionalsRef(FALSE)[1]

NoPositional == PositionalsRef(FALSE) = <<>>

\* what main did when it left the dispatch: nothing was spawned and the file
\* system is untouched
OnlyPrinted(events) ==
    /\ log = events
    /\ fs = fsStart

DispatchRule(bootstrapWanted) ==
    IF HelpAsked
    THEN pc = "exited" /\ exitCode = <<0>> /\ OnlyPrinted(<<Out("help")>>)
    ELSE IF bootstrapWanted
    THEN pc = "askBootstrapConfig" /\ exitCode = <<>> /\ fs = fsStart
    ELSE IF FirstPositional = <<"init">>
    THEN pc = "initProject" /\ exitCode = <<>> /\ fs = fsStart
    ELSE IF FirstPositional = <<"doctor">>
    THEN pc = "doctor" /\ exitCode = <<>> /\ fs = fsStart
    ELSE IF FirstPositional \in
               {<<"dev">>, <<"build">>, <<"preview">>, <<"test">>, <<"lint">>}
    THEN pc = "runProjectScript" /\ exitCode = <<>> /\ fs = fsStart
    ELSE /\ pc = "exited" /\ exitCode = <<1>>
         /\ OnlyPrinted(<<Err("unknown-command", FirstPositional), Out("help")>>)

\* C17 as stated: with -h or --help among the tokens main prints the usage
\* and ends with status 0, whatever the positionals; otherwise no positional
\* selects the default bootstrap, the first positional init, doctor or one of
\* dev, build, preview, test, lint selects that command, and every other
\* first positional prints the usage and ends with status 1, the file system
\* untouched and nothing spawned.
C17_DispatchOnFirstPositional == Parsed => DispatchRule(NoPositional)

\* C17, amended: as above, but an empty first positional selects the default
\* bootstrap as no positional does.
C17_DispatchOnCommand == Parsed => DispatchRule(FirstPositional = <<>>)

\* `1 init` was given: the first positional alone decides, the command is
\* unknown
C17_Witness ==
    /\ argv = <<<<"1">>, <<"init">>>>
    /\ pc = "exited"
    /\ exitCode = <<1>>
    /\ log = <<Err("unknown-command", <<"1">>), Out("help")>>

PassThroughAsked ==
    /\ Parsed
    /\ parsed.flags \cap {<<"-", "h">>, <<"-", "-", "help">>} = {}
    /\ parsed.positionals # <<>>
    /\ parsed.positionals[1] \in
          {<<"dev">>, <<"build">>, <<"preview">>, <<"test">>, <<"lint">>}

NoManifestInCwd ==
    /\ <<"cwd", "apps", "webclaw", "package.json">> \notin DOMAIN fsStart
    /\ <<"cwd", "package.json">> \notin DOMAIN fsStart

\* C18: a pass-through command (dev, build, preview, test, lint) in a current
\* directory that has neither apps/webclaw/package.json nor package.json
\* prints the no-project message, ends with status 1 and spawns nothing.
C18_PassThroughWithoutProject ==
    (PassThroughAsked /\ NoManifestInCwd) =>
        /\ SpawnsOf(log) = <<>>
        /\ fs = fsStart
        /\ pc \in {"runProjectScript", "exited"}
        /\ pc = "exited" =>
              /\ exitCode = <<1>>
              /\ log = <<Err("no-project", <<>>)>>

\* lint was asked for in a directory that holds notes.txt only
C18_Witness ==
    /\ PassThroughAsked
    /\ argv = <<<<"lint">>>>
    /\ NoManifestInCwd
    /\ <<"cwd", "notes.txt">> \in DOMAIN fsStart
    /\ pc = "exited"
    /\ exitCode = <<1>>

DoctorDone ==
    /\ Parsed
    /\ parsed.flags \cap {<<"-", "h">>, <<"-", "-", "help">>} = {}
    /\ parsed.positionals # <<>>
    /\ parsed.positionals[1] = <<"doctor">>
    /\ pc = "exited"

\* what doctor read: the major version of the runtime, and whether
\* `pnpm --version` ended with status 0
NodeMajorRead == digitsValue(SelectSeq(log, LAMBDA e : e.t = "read")[1].d)
PnpmFound == SpawnsOf(log)[1].r[1].status = <<0>>

\* C19: doctor ends with status 1 exactly when it found an issue (the major
\* version of the runtime below 20, pnpm not found); it has then printed
\* every issue it found, the runtime's first; without an issue it prints the
\* success message and ends with status 0.
C19_DoctorExitStatus ==
    DoctorDone =>
        LET oldNode == NodeMajorRead < 20
            noPnpm == ~PnpmFound
        IN  /\ exitCode \in {<<0>>, <<1>>}
            /\ exitCode = <<1>> <=> (oldNode \/ noPnpm)
            /\ StderrOf(log) =
                  (IF oldNode THEN <<Err("doctor-issue", <<"node">>)>> ELSE <<>>)
                  \o (IF noPnpm THEN <<Err("doctor-issue", <<"pnpm">>)>> ELSE <<>>)
            /\ Logged("stdout", "doctor-ok") <=> exitCode = <<0>>
            /\ fs = fsStart

\* doctor found both issues and printed both
C19_Witness ==
    /\ DoctorDone
    /\ NodeMajorRead = 19
    /\ ~PnpmFound
    /\ Len(StderrOf(log)) = 2
    /\ exitCode = <<1>>

\* ------------------------------------------------------------ C20
\* setDevPort on the dev scripts a template may declare. The manifest
\* setDevPort reads is the template's: initProject empties or refuses a
\* target that has entries, so the dev script is the one of the checkout next
\* to the tool or of the repository cloned.

DevPortEquals ==
    <<"vite", " ", "dev", " ", "-", "-", "port", "=", "3", "0", "0", "0">>
DevPortVariable == <<"vite", " ", "dev", " ", "-", "-", "port", " ", "$PORT">>
DevPortThenHost ==
    <<"vite", " ", "dev", " ", "-", "-", "port", " ", " ", "3", "0", "0", "0", " ",
      "-", "-", "host">>

DevScripts ==
    {DevWithPort, DevWithoutPort, DevPortEquals, DevPortVariable, DevPortThenHost,
     <<>>}

\* the checkout next to the tool: none, one whose application manifest
\* declares a dev script, one whose application manifest declares none
DevPortToolTrees ==
    {(LOCAL_TEMPLATE_ROOT :> DirNode)}
    \cup {plant((LOCAL_TEMPLATE_ROOT :> DirNode), LOCAL_TEMPLATE_ROOT, TemplateTree(dev)) :
             dev \in DevScripts}
    \cup {plant((LOCAL_TEMPLATE_ROOT :> DirNode), LOCAL_TEMPLATE_ROOT,
                (AppsWebclaw \o <<"package.json">> :> ManifestNoDev)
                @@ TemplateTree(<<>>))}

DevPortCwdTrees ==
    {<<>>,
     (<<"webclaw">> :> DirNode) @@ (<<"webclaw", ".git">> :> DirNode)}

DevPortArgvs ==
    {<<OptYes>>, <<<<"init">>>>}
    \cup {<<OptYes, OptPort, p>> :
             p \in {<<"1">>, Port4000, <<"6", "5", "5", "3", "5">>}}

DevPortInit ==
    /\ \E tool \in DevPortToolTrees, tree \in DevPortCwdTrees :
          fs = plant(plant(tool, TmpDir, <<>>), Cwd, tree)
    /\ argv \in DevPortArgvs
    /\ stdinIsTTY = FALSE
    /\ stdoutIsTTY = FALSE
    /\ stdin = <<<<>>, <<>>, <<>>, <<>>, <<>>>>
    /\ parsedArgs = EmptyParsed
    /\ consumed = 0
    /\ pc = "main"
    /\ exitCode = <<>>
    /\ log = <<>>
    /\ cfg = <<>>
    /\ answers = <<>>
    /\ targetDir = <<>>
    /\ run = 1
    /\ fsStart = fs
    /\ prev = <<>>

DevPortNext ==
    \/ Main
    \/ AskBootstrapConfig
    \/ InitProject
    \/ PopulateTemplate
    \/ EnsureGitRepository
    \/ SetDevPort

DevPortSpec == DevPortInit /\ [][DevPortNext]_vars

\* the manifest setDevPort reads
manifestPathOf(f, dir) ==
    IF existsSync(f, pathJoin(dir, AppsWebclaw))
    THEN pathJoin(dir, AppsWebclaw \o <<"package.json">>)
    ELSE pathJoin(dir, <<"package.json">>)

\* tok stands in s as a token: between white space or the ends of s
hasToken(s, tok) ==
    \E i \in 1..Len(s) :
        LET last == i + Len(tok) - 1
        IN  /\ last <= Len(s)
            /\ SubSeq(s, i, last) = tok
            /\ i = 1 \/ s[i - 1] = " "
            /\ last = Len(s) \/ s[last + 1] = " "

\* t is s with one stretch that begins with --port replaced by tok
rewrittenInPlace(s, t, tok) ==
    \E i \in 1..Len(s), j \in 1..Len(s) :
        /\ i + Len(PortFlag) - 1 <= j
        /\ SubSeq(s, i, i + Len(PortFlag) - 1) = PortFlag
        /\ t = SubSeq(s, 1, i - 1) \o tok \o SubSeq(s, j + 1, Len(s))

portToken(p) == PortFlag \o <<" ">> \o numberToString(p)

\* what a call of setDevPort has to have done, by the manifest it found
DevPortRule(f, g, dir, p) ==
    LET path == manifestPathOf(f, dir)
    IN  IF existsSync(f, path) /\ f[path].hasDev
        THEN LET dev == f[path].text
                 patched == g[path].text
             IN  /\ g[path].hasDev
                 /\ hasToken(patched, portToken(p))
                 /\ IF includes(dev, PortFlag)
                    THEN rewrittenInPlace(dev, patched, portToken(p))
                    ELSE patched = dev \o <<" ">> \o portToken(p)
                 /\ \A q \in DOMAIN f \cup DOMAIN g :
                       q # path => (q \in DOMAIN f /\ q \in DOMAIN g /\ g[q] = f[q])
        ELSE g = f

\* C20: after setDevPort(target, p) on a manifest whose scripts.dev is a
\* string the dev script contains the token `--port p`, an existing port
\* option rewritten in place and `--port p` appended where the script had
\* none; with the manifest or the dev script absent no file is written.
C20_DevScriptHasPort ==
    [][(SetDevPort /\ cfg # <<>>) =>
          DevPortRule(fs, fs', targetDir, cfg[1].port)]_vars

\* ------------------------------------------------------------ C21
\* isDirEmpty on the directories a target may be: absent, or holding any of
\* .git, .DS_Store, an ordinary file, a directory of its own.

DirEntries ==
    {(<<".git">> :> DirNode),
     (<<".DS_Store">> :> FileNode(<<>>)),
     (<<"notes.txt">> :> FileNode(<<>>)),
     (<<"apps">> :> DirNode)}

RECURSIVE mergeTrees(_)
mergeTrees(S) ==
    IF S = {} THEN <<>>
    ELSE LET t == CHOOSE x \in S : TRUE IN t @@ mergeTrees(S \ {t})

\* the current directory: without ./demo, or with ./demo holding any of the
\* entries
DirCwdTrees ==
    {<<>>}
    \cup {(<<"demo">> :> DirNode)
          @@ [q \in {<<"demo">> \o r : r \in DOMAIN mergeTrees(S)} |->
                 mergeTrees(S)[SubSeq(q, 2, Len(q))]] :
             S \in SUBSET DirEntries}

DirArgvs ==
    {<<<<"init">>, DemoDir>>,
     <<<<"init">>, DemoDir, OptForce>>,
     <<OptYes, OptProjectName, <<"demo">>>>,
     <<OptYes, OptForce, OptProjectName, <<"demo">>>>}

DirInit ==
    /\ \E tree \in DirCwdTrees :
          fs = plant(plant((LOCAL_TEMPLATE_ROOT :> DirNode), TmpDir, <<>>), Cwd, tree)
    /\ argv \in DirArgvs
    /\ stdinIsTTY = FALSE
    /\ stdoutIsTTY = FALSE
    /\ stdin = <<<<>>, <<>>, <<>>, <<>>, <<>>>>
    /\ parsedArgs = EmptyParsed
    /\ consumed = 0
    /\ pc = "main"
    /\ exitCode = <<>>
    /\ log = <<>>
    /\ cfg = <<>>
    /\ answers = <<>>
    /\ targetDir = <<>>
    /\ run = 1
    /\ fsStart = fs
    /\ prev = <<>>

DirNext == Main \/ AskBootstrapConfig \/ InitProject

DirSpec == DirInit /\ [][DirNext]_vars

\* the names directly below dir
NamesBelow(f, dir) ==
    {q[Len(q)] : q \in {r \in DOMAIN f : Len(r) = Len(dir) + 1 /\ isPrefix(dir, r)}}

\* what isDirEmpty has to answer for dir
EmptyAsStated(f, dir) ==
    \/ dir \notin DOMAIN f
    \/ f[dir].kind = "dir" /\ NamesBelow(f, dir) \subseteq {".git", ".DS_Store"}

GuardsPassed == pc = "populateTemplate"
StoppedNotEmpty == pc = "exited" /\ Logged("stderr", "target-not-empty")

\* C21: isDirEmpty is true for a path that does not exist and for a
\* directory whose only entries are .git and/or .DS_Store, false for a
\* directory with any other entry; initProject without --force goes on
\* exactly when it is true of the target.
C21_IsDirEmpty ==
    /\ \A dir \in {DemoPath, Cwd, pathJoin(Cwd, <<"absent">>)} :
          (dir \in DOMAIN fs => fs[dir].kind = "dir") =>
              (isDirEmpty(fs, dir) <=> EmptyAsStated(fs, dir))
    /\ (targetDir = DemoPath /\ ~force) =>
          /\ GuardsPassed => EmptyAsStated(fsStart, DemoPath)
          /\ StoppedNotEmpty => ~EmptyAsStated(fsStart, DemoPath)

\* ./demo held .git and .DS_Store and nothing else, and init went on
C21_Witness ==
    /\ NamesBelow(fsStart, DemoPath) = {".git", ".DS_Store"}
    /\ targetDir = DemoPath
    /\ ~force
    /\ GuardsPassed

\* ------------------------------------------------------------ C22

\* the subprocess of event e could not be spawned
SpawnFailed(e) == e.t = "spawn" /\ e.r[1].error

\* main().catch has printed the message of an error
IsCaught(e) == e.t = "stderr" /\ e.a = "error"

\* the run ended in main().catch right after log[i]
EndedInCatch(i) ==
    /\ i + 1 = Len(log)
    /\ IsCaught(log[i + 1])
    /\ pc = "exited"
    /\ exitCode = <<1>>

\* every error printed by main().catch is the last thing the run did, with
\* exit code 1, and was thrown by a subprocess that could not be spawned or
\* by an operation of the file system
CatchRule ==
    \A i \in 1..Len(log) :
        IsCaught(log[i]) =>
            /\ i > 1
            /\ EndedInCatch(i - 1)
            /\ SpawnFailed(log[i - 1]) \/ log[i - 1].t = "fs"

C23_ReportedProjectWasPopulated ==
    Logged("stdout", "created") => Logged("begin", "populate")

\* ------------------------------------------------------------ C24
\* The three layout decisions on the directories a project may be: with or
\* without apps/webclaw, with or without a manifest in it, with or without a
\* manifest and a lock file at the root.

LayoutParts ==
    {(<<"apps">> :> DirNode) @@ (AppsWebclaw :> DirNode),
     (<<"apps">> :> DirNode) @@ (AppsWebclaw :> DirNode)
         @@ (AppsWebclaw \o <<"package.json">> :> ManifestNode(DevWithPort)),
     (<<"package.json">> :> ManifestNode(RootDevScript)),
     (<<"pnpm-lock.yaml">> :> FileNode(<<>>))}

LayoutCwdTrees == {mergeTrees(S) : S \in SUBSET LayoutParts}

LayoutArgvs == {<<c>> : c \in PassThrough}

LayoutInit ==
    /\ \E tree \in LayoutCwdTrees :
          fs = plant(plant((LOCAL_TEMPLATE_ROOT :> DirNode), TmpDir, <<>>), Cwd, tree)
    /\ argv \in LayoutArgvs
    /\ stdinIsTTY \in BOOLEAN
    /\ stdoutIsTTY = stdinIsTTY
    /\ stdin = <<<<>>, <<>>, <<>>, <<>>, <<>>>>
    /\ parsedArgs = EmptyParsed
    /\ consumed = 0
    /\ pc = "main"
    /\ exitCode = <<>>
    /\ log = <<>>
    /\ cfg = <<>>
    /\ answers = <<>>
    /\ targetDir = <<>>
    /\ run = 1
    /\ fsStart = fs
    /\ prev = <<>>

LayoutNext == Main \/ RunProjectScript

LayoutSpec == LayoutInit /\ [][LayoutNext]_vars

NestedManifest(dir) == pathJoin(dir, AppsWebclaw \o <<"package.json">>)
RootManifest(dir) == pathJoin(dir, <<"package.json">>)
NestedEnvFile(dir) == pathJoin(dir, AppsWebclaw \o <<".env.local">>)
RootEnvFile(dir) == pathJoin(dir, <<".env.local">>)

\* setDevPort(dir, 4000) rewrites the manifest at path
Patches(f, dir, path) ==
    /\ path \in DOMAIN f
    /\ setDevPort(f, dir, 4000)[path] # f[path]

\* C24: for a directory detectProjectRoot classifies, resolveEnvFile gives
\* the nested apps/webclaw/.env.local and setDevPort patches
\* apps/webclaw/package.json exactly when the class is monorepo, and both use
\* the path at the root exactly when the class is single.
C24_LayoutDecisionsAgree ==
    LET mode == detectProjectRoot(fs, Cwd).mode
    IN  mode # "none" =>
          /\ resolveEnvFile(fs, Cwd) = NestedEnvFile(Cwd) <=> mode = "monorepo"
          /\ Patches(fs, Cwd, NestedManifest(Cwd)) <=> mode = "monorepo"
          /\ resolveEnvFile(fs, Cwd) = RootEnvFile(Cwd) <=> mode = "single"
          /\ Patches(fs, Cwd, RootManifest(Cwd)) <=> mode = "single"

\* ------------------------------------------------------------ C25

InstallSpawns ==
    SelectSeq(log, LAMBDA e : e.t = "spawn"
                              /\ e.a \in {"pnpm install", "yarn install", "npm install"})

\* C25: in the auto-start flow startProject is invoked only after an install
\* subprocess that ended with status 0: after a status other than 0, a
\* failure to spawn, or an end by a signal (no status) it is never invoked.
C25_StartOnlyAfterInstallSucceeded ==
    Logged("begin", "start") =>
        /\ Len(InstallSpawns) = 1
        /\ Succeeded(InstallSpawns[1].r[1])

====
